---- MODULE Spec2Model ----
(***************************************************************************)
(* PepperWizard: the closed-loop visual tracking core.                     *)
(*                                                                         *)
(*   StateBuffer          pepper_wizard/state_buffer.py                    *)
(*   HeadTracker          pepper_wizard/core/tracking/head_tracker.py      *)
(*   NativeController     pepper_wizard/core/control/native.py             *)
(*   TrapezoidalScheduler pepper_wizard/core/control/base.py               *)
(*   PIDController        pepper_wizard/core/control/pid.py                *)
(*   TrackingOrchestrator pepper_wizard/orchestrators/                     *)
(*                        tracking_orchestrator.py                         *)
(*   VisionReceiver       pepper_wizard/perception/vision_receiver.py      *)
(*                                                                         *)
(* Floating-point quantities are held on integer grids; a quotient the     *)
(* code computes in floating point is either kept exact as a numerator     *)
(* over a denominator (the interpolation of the State Buffer) or rounded   *)
(* toward zero onto the grid (the controllers).                            *)
(***************************************************************************)
EXTENDS Integers, Sequences, FiniteSets, TLC

VARIABLES
    \* ---- StateBuffer (state_buffer.py)
    buffer,                 \* the deque of (ts, yaw, pitch) samples
    q_time,                 \* query_time of the pending get_state_at call
    q_res,                  \* what that call returned
    \* ---- HeadTracker and its controllers (head_tracker.py, native.py,
    \*      base.py, pid.py)
    control_mode,           \* HeadTracker.control_mode: "native" or "pid"
    smoother_yaw,           \* NativeController.smoother_yaw.value
    smoother_pitch,         \* NativeController.smoother_pitch.value
    scheduler_yaw,          \* NativeController.scheduler_yaw: curr_v, last_cmd
    scheduler_pitch,        \* NativeController.scheduler_pitch
    pid_yaw,                \* HeadTracker.pid_yaw: prev_error, integral, last_output
    pid_pitch,              \* HeadTracker.pid_pitch
    trk_call,               \* the last call made on the tracker, with its inputs
    issued,                 \* the last command the control thread sent to the actuator
    \* ---- TrackingOrchestrator (tracking_orchestrator.py)
    running,                \* TrackingOrchestrator.running
    active_target_label,    \* TrackingOrchestrator.active_target_label
    last_detection,         \* the detection mailbox
    last_measurement_time,  \* TrackingOrchestrator.last_measurement_time
    target_lost_active,     \* TrackingOrchestrator.target_lost_active
    clock,                  \* time.time(), and the capture clock
    published,              \* frames the streamer has published
    socket_queue,           \* frames waiting on the receiver's socket
    vis_pc,                 \* where the vision callback stands
    vis_frame,              \* the frame the callback was called with
    vis_delivered,          \* seq of the frame the receiver last handed to the callback
    vis_dropped,            \* frames the receiver's latest drain read and discarded
    ctl_pc,                 \* where the control thread stands in its tick
    ctl_now,                \* the tick's local now
    ctl_detection,          \* the tick's local detection
    ctl_writes,             \* parity of the commands the control thread has sent
    last_written,           \* id of the Detection last written to the mailbox
    overwritten,            \* ids of the Detections a write found in the mailbox
    consumed,               \* the Detections the control thread has consumed, in order
    \* ---- the tuning configuration (tracking_orchestrator.py)
    tuning_file,            \* what tuning.json holds on disk
    config,                 \* TrackingOrchestrator.config
    loaded_file,            \* what tuning.json held when it was last loaded
    started,                \* start() has applied the stiffness
    loop_counter,           \* _control_loop's loop_counter, modulo the reload period
    last_stiff,             \* TrackingOrchestrator._last_stiff, None while not set
    applied_stiffness,      \* the value of the last set_stiffness call
    rel_call,               \* the last step of the configuration, with what it did
    tracker_shares_config,  \* HeadTracker.config is the orchestrator's dict itself
    \* ---- PerceptionInterpreter (interpreter.py)
    itp_raw_data,           \* interpret's raw_data
    itp_target_label,       \* interpret's target_label
    itp_source_angles,      \* interpret's source_angles
    itp_calls,              \* calls of interpret made on these inputs
    itp_last,               \* what the last call returned, and its local max_conf
    itp_prev,               \* the same of the call before it
    \* ---- RobotActuator (actuation.py)
    command_queue,          \* RobotActuator.command_queue
    wr_pc,                  \* where each writer stands in _send_internal
    wr_cmd,                 \* each writer's command
    next_cmd,               \* ordinal of the next set_head_* call
    act_pc,                 \* where the actuator thread stands in run
    act_cmd,                \* run's local cmd
    wr_ret,                 \* the last _send_internal to return, with the mailbox then
    act_sent,               \* the last command run handled, with the mailbox then
    act_label,              \* whether active_target_label holds a label
    act_yielded,            \* yield_control has returned and set_target has not been called since
    act_stop,               \* RobotActuator._stop_event
    act_at_stop,            \* the mailbox when stop() was called
    act_errors,             \* errors run has logged
    \* ---- shutdown (command_handler.py, tracking_orchestrator.py)
    stop_pc,                \* where cleanup and stop stand
    run_flag,               \* the flag each thread's loop tests
    thread_pc,              \* where each thread stands in its loop
    perception_open,        \* the Perception Client's socket is open
    \* ---- the control thread's loop (tracking_orchestrator.py)
    loop_pc,                \* where the control thread stands: "while", "sleep", "dead", "exited"
    loop_running,           \* TrackingOrchestrator.running, as the loop reads it
    loop_label,             \* a target label is active
    loop_now,               \* time.time()
    loop_lmt,               \* last_measurement_time, 0 while there is none
    loop_box,               \* timestamp of the Detection in the mailbox, or None
    loop_lost_active,       \* target_lost_active
    loop_lost_timeout,      \* config["native"]["target_lost_timeout"]
    loop_slept,             \* the thread has passed the sleep since its last tick began
    loop_call,              \* the last tick, with what it did
    loop_target_since,      \* the clock when set_target(label) was last called
    loop_since_recenter,    \* since the last recenter: "none" issued yet, "starved", or "fed" a Detection
    \* ---- PerceptionClient (perception_client.py)
    pcl_pc,                 \* where detect stands: "idle" or "sent"
    pcl_socket,             \* self.socket: its generation and its REQ state
    pcl_entry,              \* the REQ state detect found when it was called
    pcl_requests,           \* requests the service holds, by the socket that sent them
    pcl_replies,            \* replies on their way to the client
    pcl_calls,              \* detect calls made
    pcl_call,               \* the last detect to return, with what it returned
    \* ---- ZMQCommandListener and CommandHandler._handle_external_command
    lst_inbox,              \* requests queued at the REP socket, oldest first
    lst_submitted,          \* requests clients have sent
    lst_socket,             \* the REP socket: "recv_ready" or "reply_due"
    lst_received,           \* requests the listener has taken from the socket
    lst_replies,            \* replies sent, in order, each with its request
    lst_target,             \* the label the callback last gave set_target
    lst_social,             \* the robot's social state
    lst_suppressed,         \* suppressed_social_state
    \* ---- VisionReceiver.run after the drain, VisionClient.run (payload dispatch)
    rcv_passes,             \* passes of a receive loop that got a message
    rcv_callbacks,          \* times VisionReceiver has invoked its callback
    rcv_call,               \* the latest pass: the message and what became of it
    \* ---- NativeController.update from any state of the controller
    nat_ctrl,               \* the smoothers and schedulers of a NativeController
    nat_ticks,              \* updates made so far
    nat_call,               \* the latest update: its inputs and the controller before it
    \* ---- a change of target: set_target, the vision callback and the tick
    tgt_label,              \* active_target_label: None or Some(label)
    tgt_changes,            \* calls of set_target so far
    tgt_vis_pc,             \* the callback: "idle", "request" or "detect"
    tgt_request,            \* target_label of the perception request in flight
    tgt_box,                \* last_detection: None or Some(Detection)
    tgt_ctl_pc,             \* the control thread: "check" or "decide"
    tgt_tick,               \* the tick in progress: its label and its Detection
    tgt_call                \* the latest call on the tracker

bufVars == <<buffer, q_time, q_res>>

trkVars == <<control_mode, smoother_yaw, smoother_pitch, scheduler_yaw,
             scheduler_pitch, pid_yaw, pid_pitch, trk_call, issued>>

boxVars == <<last_detection, last_measurement_time>>

envVars == <<clock, published, socket_queue>>

visVars == <<vis_pc, vis_frame, vis_delivered, vis_dropped>>

ctlVars == <<ctl_pc, ctl_now, ctl_detection, target_lost_active, ctl_writes>>

logVars == <<last_written, overwritten, consumed>>

orchVars == <<running, active_target_label, boxVars, envVars, visVars, ctlVars, logVars>>

coreVars == <<bufVars, trkVars, orchVars>>

reloadVars == <<tuning_file, config, loaded_file, started, loop_counter, last_stiff,
                applied_stiffness, rel_call,
                tracker_shares_config>>

\* The components that are specified on their own.
itpVars == <<itp_raw_data, itp_target_label, itp_source_angles, itp_calls, itp_last,
             itp_prev>>

actVars == <<command_queue, wr_pc, wr_cmd, next_cmd, act_pc, act_cmd, wr_ret, act_sent,
             act_label, act_yielded, act_stop, act_at_stop, act_errors>>

stopVars == <<stop_pc, run_flag, thread_pc, perception_open>>

loopVars == <<loop_pc, loop_running, loop_label, loop_now, loop_lmt,
              loop_box, loop_lost_active, loop_lost_timeout, loop_slept, loop_call,
             loop_target_since, loop_since_recenter>>

pclVars == <<pcl_pc, pcl_socket, pcl_entry,
             pcl_requests, pcl_replies, pcl_calls, pcl_call>>

lstVars == <<lst_inbox, lst_submitted, lst_socket, lst_received,
             lst_replies, lst_target, lst_social, lst_suppressed>>

rcvVars == <<rcv_passes, rcv_callbacks, rcv_call>>

natVars == <<nat_ctrl, nat_ticks, nat_call>>

tgtVars == <<tgt_label, tgt_changes, tgt_vis_pc, tgt_request,
             tgt_box, tgt_ctl_pc, tgt_tick, tgt_call>>

extVars == <<reloadVars, itpVars, actVars, stopVars, loopVars, pclVars, lstVars, rcvVars, natVars, tgtVars>>

vars == <<coreVars, extVars>>

\* Python's None and a present value, for an Optional field.
None == <<>>

Some(x) == <<x>>

(***************************************************************************)
(* Arithmetic helpers.                                                     *)
(***************************************************************************)
Abs(x) == IF x < 0 THEN -x ELSE x

Min(a, b) == IF a < b THEN a ELSE b

Max(a, b) == IF a > b THEN a ELSE b

\* a / b rounded toward zero (b > 0): the grid value of a float quotient.
TruncDiv(a, b) == IF a >= 0 THEN a \div b ELSE -((-a) \div b)

(***************************************************************************)
(* StateBuffer.                                                            *)
(* Time unit of this component: 25 ms, so that the 50 ms slack is 2.       *)
(***************************************************************************)

\* Bounds of the component's inputs.
MaxLen == 3                 \* deque(maxlen=...) of the model
MaxTs == 3                  \* timestamps carried by joint records: 0..MaxTs

Slack == 2                  \* the 0.05 s slack of get_state_at

\* (yaw, pitch) pairs carried by joint records: opposite slopes on the two axes.
Angles == {<<0, 4>>, <<4, 0>>}

Samples == [ts : 0..MaxTs, yaw : {a[1] : a \in Angles}, pitch : {a[2] : a \in Angles}]

JointRecords == {s \in Samples : <<s.yaw, s.pitch>> \in Angles}

QueryTimes == (0 - Slack - 1)..(MaxTs + Slack + 1)

\* A lookup result: None, or yaw = yn/den and pitch = pn/den.
NoneResult == [kind |-> "none", yn |-> 0, pn |-> 0, den |-> 1]

NotQueried == [kind |-> "idle", yn |-> 0, pn |-> 0, den |-> 1]

Value(yn, pn, den) == [kind |-> "value", yn |-> yn, pn |-> pn, den |-> den]

\* self.buffer[i][1:]
SampleValue(s) == Value(s.yaw, s.pitch, 1)

\* deque.append on a deque with maxlen: the oldest entry falls out when full.
DequeAppend(dq, x) ==
    IF Len(dq) >= MaxLen THEN Append(Tail(dq), x) ELSE Append(dq, x)

\* StateBuffer.run: every 16-byte record is appended as it arrives.
BufferInsert(buf, s) == DequeAppend(buf, s)

\* bisect.bisect_right(a, x) as CPython computes it (lo, hi are 0-based).
RECURSIVE BisectLoop(_, _, _, _)
BisectLoop(a, x, lo, hi) ==
    IF lo < hi
    THEN LET mid == (lo + hi) \div 2
         IN  IF x < a[mid + 1]
             THEN BisectLoop(a, x, lo, mid)
             ELSE BisectLoop(a, x, mid + 1, hi)
    ELSE lo

bisect_right(a, x) == BisectLoop(a, x, 0, Len(a))

\* The interpolation of get_state_at between buffer[idx-1] and buffer[idx]
\* (0-based idx), kept exact over the denominator t1 - t0.
Interpolate(s0, s1, query_time) ==
    IF s1.ts - s0.ts > 0
    THEN Value(s0.yaw * (s1.ts - s0.ts) + (query_time - s0.ts) * (s1.yaw - s0.yaw),
               s0.pitch * (s1.ts - s0.ts) + (query_time - s0.ts) * (s1.pitch - s0.pitch),
               s1.ts - s0.ts)
    ELSE Value(s0.yaw, s0.pitch, 1)

\* Faulty variant of the lookup: the pair after the insertion point is interpolated.
InterpolateAtShifted(buf, idx, query_time) ==
    IF idx + 2 <= Len(buf)
    THEN Interpolate(buf[idx + 1], buf[idx + 2], query_time)
    ELSE Interpolate(buf[idx], buf[idx + 1], query_time)

InterpolateAt(buf, idx, query_time) ==
    Interpolate(buf[idx], buf[idx + 1], query_time)

get_state_at(buf, query_time) ==
    IF buf = <<>>
    THEN NoneResult
    ELSE LET timestamps == [i \in 1..Len(buf) |-> buf[i].ts]
         IN  IF query_time < timestamps[1] - Slack
             THEN NoneResult
             ELSE IF query_time > timestamps[Len(buf)] + Slack
             THEN SampleValue(buf[Len(buf)])
             ELSE LET idx == bisect_right(timestamps, query_time)
                  IN  IF idx = 0
                      THEN SampleValue(buf[1])
                      ELSE IF idx = Len(timestamps)
                      THEN SampleValue(buf[Len(buf)])
                      ELSE InterpolateAt(buf, idx, query_time)

BufInit ==
    /\ buffer = <<>>
    /\ q_time = 0
    /\ q_res = NotQueried

\* The receiver thread takes one joint record off the socket.  The pending
\* lookup of a caller belongs to the ring as it was, and ends here.
StateReceive ==
    \E s \in JointRecords :
        /\ buffer' = BufferInsert(buffer, s)
        /\ q_time' = 0
        /\ q_res' = NotQueried
        /\ UNCHANGED <<trkVars, orchVars, extVars>>

\* A caller looks the ring up at query_time.
StateQuery ==
    \E t \in QueryTimes :
        /\ q_time' = t
        /\ q_res' = get_state_at(buffer, t)
        /\ UNCHANGED <<buffer, trkVars, orchVars, extVars>>

BufNext == StateReceive \/ StateQuery

(***************************************************************************)
(* HeadTracker and its controllers.                                        *)
(*                                                                         *)
(* Grids.  Time: one unit is the tracker's smallest dt.  Image: the bbox   *)
(* centre in units of a quarter of the frame, so that the half width and   *)
(* the half height are 2 and a normalised error is a multiple of 1/2.      *)
(* Angles and velocities: integers; a position moves by velocity * dt.     *)
(*                                                                         *)
(* Not modelled: the Kalman filter (core/control/filters.py), whose        *)
(* estimate the native branch bypasses and the PID branch receives here as *)
(* an input; the AlphaBetaEstimator, whose velocity nothing reads (the     *)
(* feed-forward handed to the scheduler is the literal 0.0).               *)
(***************************************************************************)

\* Bounds of the tracker's inputs.
MaxRawDt == 4               \* now - last_update_time ranges over 0..MaxRawDt
MaxAngle == 4               \* head yaw reported by the robot: 0 or MaxAngle
MaxGhostTicks == 2          \* consecutive updates that propagate the ghost target

\* HeadTracker.update, the SAFETY CLAMP: 0.05 s, 0.01 s and 0.001 s.
SafetyMaxDt == 3
SafetyFallbackDt == 2
SafetyMinDt == 1

\* NativeController.update: inner_dt = max(0.001, min(dt, 0.05)), p_dt = min(dt, 0.05).
InnerMinDt == 1
InnerMaxDt == 3

\* HeadTracker.width / 2 and HeadTracker.height / 2.
HalfWidth == 2
HalfHeight == 2

\* native config: fov_x * 0.5 and fov_y * 0.5 per error unit, deadzone_x,
\* deadzone_y, vel_decay, smoothing.
FovHalfX == 3
FovHalfY == 1
deadzone_x == 2
deadzone_y == 1
VelDecayNum == 1
VelDecayDen == 2
SmoothingNum == 0
SmoothingDen == 1

\* native config: max_vel_deg_s, max_accel_deg_s2, gain_p (as KpNum / KpDen).
max_v == 2
max_a == 1
KpNum == 1
KpDen == 4

\* pid config: base_kp, boost_kp, kd, ki, max_output, deadzone_yaw,
\* deadzone_pitch; the +-0.5
\* anti-windup clamp of the integral; the dt <= 0.0001 guard.
PidBaseKp == 1
PidBoostKp == 1
PidKd == 1
PidKi == 1
PidMaxOutput == 4
PidDeadzoneYaw == 2
PidDeadzonePitch == 1
IntegralClamp == 2
PidMinDt == 0

RawDts == 0..MaxRawDt


\* Bbox centres of a Detection, and the source_angles it may carry.
CentresX == 1..(2 * HalfWidth)

CentresY == {HalfHeight + 1}

DetectionInputs ==
    [cx : CentresX, cy : CentresY, source_angles : {None, Some(<<MaxAngle, 0>>)}]

\* current_state handed to HeadTracker.update: None or (yaw, pitch).
RobotStates == {None, Some(<<0, 0>>)}

\* The Kalman estimate's normalised errors, in the PID branch.
PidErrorsX == (0 - HalfWidth)..HalfWidth

PidErrorsY == {0, 1}

\* ---- base.py

\* ExponentialSmoother.update
SmootherUpdate(value, raw_value) ==
    IF value = None
    THEN Some(raw_value)
    ELSE LET alpha_num == Max(0, Min(SmoothingDen, SmoothingDen - SmoothingNum))
         IN  Some(TruncDiv(alpha_num * raw_value
                           + (SmoothingDen - alpha_num) * value[1], SmoothingDen))

\* TrapezoidalScheduler.reset
SchedulerReset == [curr_v |-> 0, last_cmd |-> None]

\* Faulty variant: the velocity clamp is missing.
ClampVelocityOff(des_vel) == des_vel

\* TrapezoidalScheduler.update, step 2
ClampVelocity(des_vel) == Max(0 - max_v, Min(max_v, des_vel))

\* Faulty variant: the acceleration limit is missing.
LimitAccelerationOff(dv, max_dv) == dv

\* TrapezoidalScheduler.update, step 3
LimitAcceleration(dv, max_dv) == Max(0 - max_dv, Min(max_dv, dv))

\* TrapezoidalScheduler.update: the scheduler after the call; the value
\* returned is its last_cmd.
SchedulerUpdate(sch, target_pos, current_pos, dt, feed_forward_v) ==
    IF sch.last_cmd = None
    THEN [curr_v |-> 0, last_cmd |-> Some(current_pos)]
    ELSE LET dist == target_pos - sch.last_cmd[1]
             des_vel == ClampVelocity(TruncDiv(dist * KpNum, KpDen) + feed_forward_v)
             max_dv == max_a * dt
             dv == LimitAcceleration(des_vel - sch.curr_v, max_dv)
             v == sch.curr_v + dv
         IN  [curr_v |-> v, last_cmd |-> Some(sch.last_cmd[1] + v * dt)]

\* ---- native.py

\* Faulty variant: the deadzone takes the threshold in.
InsideDeadzoneInclusive(error, deadzone) == Abs(error) <= deadzone

\* NativeController.update and PIDController.update: abs(error) < deadzone
InsideDeadzone(error, deadzone) == Abs(error) < deadzone

\* ... : error = 0.0
Deadzone(error, deadzone) == IF InsideDeadzone(error, deadzone) THEN 0 ELSE error

\* NativeController.update.  error and current are None or a pair (x or yaw
\* first).  The result carries the controller's new state and the returned
\* (final_yaw, final_pitch), None when the code returns (None, None, speed).
NativeUpdate(sm_yaw, sm_pitch, sch_yaw, sch_pitch, error, current, dt) ==
    LET measured == error # None /\ current # None
        \* 1. Target Processing
        raw_target_yaw == current[1][1] + Deadzone(error[1][1], deadzone_x) * FovHalfX
        raw_target_pitch == current[1][2] + Deadzone(error[1][2], deadzone_y) * FovHalfY
        p_dt == Min(dt, InnerMaxDt)
        s_yaw == IF measured
                 THEN SmootherUpdate(sm_yaw, raw_target_yaw)
                 ELSE IF sm_yaw # None
                 THEN Some(sm_yaw[1] + TruncDiv(sch_yaw.curr_v * VelDecayNum * p_dt, VelDecayDen))
                 ELSE sm_yaw
        s_pitch == IF measured
                   THEN SmootherUpdate(sm_pitch, raw_target_pitch)
                   ELSE sm_pitch
        \* 2. Motion Scheduling
        inner_dt == Max(InnerMinDt, Min(dt, InnerMaxDt))
        scheduled == s_yaw # None /\ current # None
        n_yaw == IF scheduled
                 THEN SchedulerUpdate(sch_yaw, s_yaw[1], current[1][1], inner_dt, 0)
                 ELSE sch_yaw
        n_pitch == IF scheduled
                   THEN SchedulerUpdate(sch_pitch, s_pitch[1], current[1][2], inner_dt, 0)
                   ELSE sch_pitch
    IN  [smoother_yaw |-> s_yaw, smoother_pitch |-> s_pitch,
         scheduler_yaw |-> n_yaw, scheduler_pitch |-> n_pitch,
         final |-> IF scheduled THEN Some(<<n_yaw.last_cmd[1], n_pitch.last_cmd[1]>>) ELSE None]

\* ---- pid.py

\* PIDController.reset
PidReset == [prev_error |-> 0, integral |-> 0, last_output |-> 0]

\* PIDController.update with max_acceleration None and output_smoothing 0.0,
\* as HeadTracker builds its controllers: the controller after the call; the
\* value returned is its last_output.
PidUpdate(pid, kp, deadzone, raw_error, dt) ==
    IF dt <= PidMinDt
    THEN pid
    ELSE LET inside == InsideDeadzone(raw_error, deadzone)
             error == Deadzone(raw_error, deadzone)
             p_term == kp * error
             d_term == PidKd * TruncDiv(error - pid.prev_error, dt)
             integral == Max(0 - IntegralClamp, Min(IntegralClamp,
                             (IF inside THEN 0 ELSE pid.integral) + error * dt))
             i_term == PidKi * integral
             output == Max(Min(p_term + d_term + i_term, PidMaxOutput), 0 - PidMaxOutput)
         IN  [prev_error |-> error, integral |-> integral, last_output |-> output]

\* ---- head_tracker.py

\* HeadTracker.update, the SAFETY CLAMP on dt = now - last_update_time.
SafetyClamp(raw_dt) ==
    LET dt == IF raw_dt > SafetyMaxDt THEN SafetyFallbackDt ELSE raw_dt
    IN  IF dt < SafetyMinDt THEN SafetyMinDt ELSE dt

\* The normalised errors of a bbox centre, in units of 1/HalfWidth and 1/HalfHeight.
ErrX(cx) == 0 - (cx - HalfWidth)

ErrY(cy) == cy - HalfHeight

NoCommand == [type |-> "none", yaw |-> 0, pitch |-> 0]

Position(yaw, pitch) == [type |-> "position", yaw |-> yaw, pitch |-> pitch]

Velocity(yaw, pitch) == [type |-> "velocity", yaw |-> yaw, pitch |-> pitch]

NoCall == [op |-> "init", raw_dt |-> 0, dt |-> 0, measured |-> FALSE, current |-> None, err |-> <<0, 0>>, ghost |-> 0]

TrkInit ==
    /\ control_mode \in {"native", "pid"}
    /\ smoother_yaw = None
    /\ smoother_pitch = None
    /\ scheduler_yaw = SchedulerReset
    /\ scheduler_pitch = SchedulerReset
    /\ pid_yaw = PidReset
    /\ pid_pitch = PidReset
    /\ trk_call = NoCall
    /\ issued = NoCommand

\* HeadTracker.reset
TrackerResetState ==
    /\ control_mode' = control_mode
    /\ IF control_mode = "native"
       THEN /\ smoother_yaw' = None
            /\ smoother_pitch' = None
            /\ scheduler_yaw' = SchedulerReset
            /\ scheduler_pitch' = SchedulerReset
            /\ UNCHANGED <<pid_yaw, pid_pitch>>
       ELSE /\ pid_yaw' = PidReset
            /\ pid_pitch' = PidReset
            /\ UNCHANGED <<smoother_yaw, smoother_pitch, scheduler_yaw, scheduler_pitch>>

\* HeadTracker.update, native branch: the head angles the controller works
\* from ("Use Synced Angles if available").
NativeCurrent(detection, current_state) ==
    IF detection # None /\ detection[1].source_angles # None
    THEN detection[1].source_angles
    ELSE current_state

\* HeadTracker.update, native branch: the raw bbox error, None without a detection.
NativeError(detection) ==
    IF detection # None
    THEN Some(<<ErrX(detection[1].cx), ErrY(detection[1].cy)>>)
    ELSE None

\* NativeController.update takes its measured path.
Measured(detection, current_state) ==
    NativeError(detection) # None /\ NativeCurrent(detection, current_state) # None

\* NativeController.update takes its ghost pursuit path.
Propagated(detection, current_state) ==
    ~Measured(detection, current_state) /\ smoother_yaw # None

\* What native_ctrl.update returns and leaves in the controller.
NativeResult(raw_dt, detection, current_state) ==
    NativeUpdate(smoother_yaw, smoother_pitch, scheduler_yaw, scheduler_pitch,
                 NativeError(detection), NativeCurrent(detection, current_state),
                 SafetyClamp(raw_dt))

\* cmd = tracker.update(detection, robot_state) in native mode, and the
\* forwarding of cmd, if any, to the actuator.
HeadTrackerUpdateNative(raw_dt, detection, current_state) ==
    LET n == NativeResult(raw_dt, detection, current_state)
        measured == Measured(detection, current_state)
    IN  /\ smoother_yaw' = n.smoother_yaw
        /\ smoother_pitch' = n.smoother_pitch
        /\ scheduler_yaw' = n.scheduler_yaw
        /\ scheduler_pitch' = n.scheduler_pitch
        /\ trk_call' = [op |-> "update", raw_dt |-> raw_dt, dt |-> SafetyClamp(raw_dt),
                        measured |-> measured,
                        current |-> IF measured
                                    THEN NativeCurrent(detection, current_state)
                                    ELSE None,
                        err |-> IF measured THEN NativeError(detection)[1] ELSE <<0, 0>>,
                        ghost |-> IF Propagated(detection, current_state)
                                  THEN Min(trk_call.ghost + 1, MaxGhostTicks)
                                  ELSE 0]
        /\ issued' = IF n.final # None
                     THEN Position(n.final[1][1], n.final[1][2])
                     ELSE issued
        /\ UNCHANGED <<control_mode, pid_yaw, pid_pitch>>

\* cmd = tracker.update(detection, robot_state) in PID mode, err_x and err_y
\* being the normalised errors of the Kalman estimate, and the forwarding of
\* the velocity command to the actuator.
HeadTrackerUpdatePid(raw_dt, err_x, err_y) ==
    LET dt == SafetyClamp(raw_dt)
        adaptive_kp == PidBaseKp + PidBoostKp * Max(Abs(err_x), Abs(err_y))
        yaw == PidUpdate(pid_yaw, adaptive_kp, PidDeadzoneYaw, err_x, dt)
        pitch == PidUpdate(pid_pitch, adaptive_kp, PidDeadzonePitch, err_y, dt)
    IN  /\ pid_yaw' = yaw
        /\ pid_pitch' = pitch
        /\ trk_call' = [op |-> "update", raw_dt |-> raw_dt, dt |-> dt,
                        measured |-> TRUE,
                        current |-> None, err |-> <<err_x, err_y>>, ghost |-> 0]
        /\ issued' = Velocity(yaw.last_output, pitch.last_output)
        /\ UNCHANGED <<control_mode, smoother_yaw, smoother_pitch, scheduler_yaw,
                       scheduler_pitch>>

\* A control tick that reaches tracker.update(detection, robot_state) in
\* native mode, over the tracker's input space.
TrackerUpdateNative ==
    /\ control_mode = "native"
    /\ \E raw_dt \in RawDts, detection \in {None} \cup {Some(d) : d \in DetectionInputs},
          current_state \in RobotStates :
        /\ Propagated(detection, current_state) => trk_call.ghost < MaxGhostTicks
        /\ HeadTrackerUpdateNative(raw_dt, detection, current_state)
    /\ UNCHANGED <<bufVars, orchVars, extVars>>

\* The same tick in PID mode.
TrackerUpdatePid ==
    /\ control_mode = "pid"
    /\ \E raw_dt \in RawDts, err_x \in PidErrorsX, err_y \in PidErrorsY :
        HeadTrackerUpdatePid(raw_dt, err_x, err_y)
    /\ UNCHANGED <<bufVars, orchVars, extVars>>

\* TrackingOrchestrator.set_target: tracker.reset().
TrackerReset ==
    /\ TrackerResetState
    /\ trk_call' = [NoCall EXCEPT !.op = "reset"]
    /\ UNCHANGED <<issued, bufVars, orchVars, extVars>>

\* TrackingOrchestrator._control_loop, target lost: tracker.reset() and the
\* recenter command set_head_position(0.0, 0.0, speed=0.1).
TrackerTargetLost ==
    /\ TrackerResetState
    /\ trk_call' = [NoCall EXCEPT !.op = "lost"]
    /\ issued' = Position(0, 0)
    /\ UNCHANGED <<bufVars, orchVars, extVars>>

TrkNext == TrackerUpdateNative \/ TrackerUpdatePid \/ TrackerReset \/ TrackerTargetLost

(***************************************************************************)
(* TrackingOrchestrator: the vision callback, the control thread and the   *)
(* callers of set_target, with the frame receiver that drives the          *)
(* callback (its thread is that of perception/vision_receiver.py).         *)
(* Time unit of this component: 0.5 s, so that target_lost_timeout (0.5 s) *)
(* is 1 and the hard timeout (1.0 s) is 2.  The capture clock and          *)
(* time.time() are one monotonic clock.  The head angles the State client  *)
(* returns, the verdict of the perception backend and the time between two *)
(* tracker updates are inputs.  tuning.json is taken as unchanged on disk, *)
(* so the hot reload of a tick leaves the configuration as it is.          *)
(***************************************************************************)

\* Bounds of the run.
MaxTime == 3                \* the clock runs over 1..MaxTime
MaxFrames == 3              \* frames the streamer publishes
MaxQueue == 2               \* frames waiting on the receiver's socket

\* _control_loop: target_lost_timeout and the hard timeout.
TargetLostTimeout == 1
HardTimeout == 2

Labels == {"person"}

\* time.time() - HeadTracker.last_update_time at a tick's tracker.update.
TickDts == {SafetyMinDt}

\* The normalised errors of the Kalman estimate at a tick in PID mode.
TickPidErrors == {<<0, 0>>}

\* A published frame: its sequence number and capture timestamp.
Frame(seq, ts) == [seq |-> seq, timestamp |-> ts]

NoFrame == Frame(0, 0)

\* PerceptionInterpreter.interpret: the Detection built for an accepted frame,
\* here of a target at the image centre.
MakeDetection(frame, label, source_angles) ==
    [id |-> frame.seq, timestamp |-> frame.timestamp, label |-> label,
     cx |-> HalfWidth, cy |-> HalfHeight, source_angles |-> source_angles]

\* The entry of the consumed log for a Detection.
Consumed(detection) == [id |-> detection.id, timestamp |-> detection.timestamp]

\* Faulty variant of the drain: the newest frame is taken, the older stay queued.
DrainKeepOlder(queue) == SubSeq(queue, 1, Len(queue) - 1)

\* VisionReceiver.run, DRAIN QUEUE: what is left on the socket after the drain.
DrainQueue(queue) == <<>>

\* Faulty variant of the drain loop: the first frame read is kept.
FirstMsg(queue) == queue[1]

\* VisionReceiver.run, DRAIN QUEUE: last_msg after the loop, the frame read last.
LastMsg(queue) == queue[Len(queue)]

\* Faulty variant of the write: a full mailbox keeps the Detection it holds.
MailboxWriteIfEmpty(slot, detection) == IF slot = None THEN Some(detection) ELSE slot

\* on_frame_received: self.last_detection = detection.
MailboxWrite(slot, detection) == Some(detection)

\* Faulty variant of the consume: the mailbox is left as it is.
MailboxKeep(slot) == slot

\* _control_loop: self.last_detection = None  # Consume it
MailboxConsume(slot) == None

OrchInit ==
    /\ running = FALSE
    /\ active_target_label = None
    /\ last_detection = None
    /\ last_measurement_time = 0
    /\ target_lost_active = FALSE
    /\ clock = 1
    /\ published = 0
    /\ socket_queue = <<>>
    /\ vis_pc = "idle"
    /\ vis_frame = NoFrame
    /\ vis_delivered = 0
    /\ vis_dropped = 0
    /\ ctl_pc = "check"
    /\ ctl_now = 0
    /\ ctl_detection = None
    /\ ctl_writes = 0
    /\ last_written = 0
    /\ overwritten = {}
    /\ consumed = <<>>

\* TrackingOrchestrator.start
Start ==
    /\ ~running
    /\ running' = TRUE
    /\ UNCHANGED <<active_target_label, boxVars, envVars, visVars, ctlVars, logVars>>
    /\ UNCHANGED <<bufVars, trkVars, extVars>>

\* Time passes.
Advance ==
    /\ clock < MaxTime
    /\ clock' = clock + 1
    /\ UNCHANGED <<published, socket_queue>>
    /\ UNCHANGED <<running, active_target_label, boxVars, visVars, ctlVars, logVars>>
    /\ UNCHANGED <<bufVars, trkVars, extVars>>

\* The streamer publishes a frame stamped with the capture clock.
FramePublish ==
    /\ published < MaxFrames
    /\ Len(socket_queue) < MaxQueue
    /\ published' = published + 1
    /\ socket_queue' = Append(socket_queue, Frame(published + 1, clock))
    /\ UNCHANGED clock
    /\ UNCHANGED <<running, active_target_label, boxVars, visVars, ctlVars, logVars>>
    /\ UNCHANGED <<bufVars, trkVars, extVars>>

\* The receiver thread drains its socket, keeps the last frame and calls
\* on_frame_received, which returns at once unless the orchestrator runs
\* and has a target; otherwise the callback enters perception.detect.
VisionReceive ==
    /\ running
    /\ vis_pc = "idle"
    /\ socket_queue # <<>>
    /\ socket_queue' = DrainQueue(socket_queue)
    /\ vis_delivered' = LastMsg(socket_queue).seq
    /\ vis_dropped' = Len(socket_queue) - 1
    /\ IF active_target_label = None
       THEN UNCHANGED <<vis_pc, vis_frame>>
       ELSE /\ vis_pc' = "detect"
            /\ vis_frame' = LastMsg(socket_queue)
    /\ UNCHANGED <<clock, published>>
    /\ UNCHANGED <<running, active_target_label, boxVars, ctlVars, logVars>>
    /\ UNCHANGED <<bufVars, trkVars, extVars>>

\* perception.detect returns; the interpreter, handed the label as it is now
\* and the head angles at the capture timestamp, accepts the frame or not;
\* an accepted Detection goes into the mailbox under the lock.  interpret
\* reads nothing that the write changes and no other thread reads the
\* callback's local detection, so the two are taken as one step.
VisionDetect ==
    /\ vis_pc = "detect"
    /\ \E accepted \in BOOLEAN, source_angles \in RobotStates :
        IF accepted /\ active_target_label # None
        THEN LET detection ==
                     MakeDetection(vis_frame, active_target_label[1], source_angles)
             IN  /\ last_detection' = MailboxWrite(last_detection, detection)
                 /\ last_measurement_time' = detection.timestamp
                 /\ last_written' = detection.id
                 /\ overwritten' = IF last_detection # None
                                   THEN overwritten \cup {last_detection[1].id}
                                   ELSE overwritten
        ELSE UNCHANGED <<boxVars, last_written, overwritten>>
    /\ vis_pc' = "idle"
    /\ vis_frame' = NoFrame
    /\ UNCHANGED <<vis_delivered, vis_dropped>>
    /\ UNCHANGED consumed
    /\ UNCHANGED <<running, active_target_label, envVars, ctlVars>>
    /\ UNCHANGED <<bufVars, trkVars, extVars>>

\* set_target(label): self.active_target_label = label, then
\* self.tracker.reset().  Every step of another thread either reads the
\* label and leaves the tracker alone or the reverse, so it commutes with one
\* of the two statements and the call is taken as one step.
SetTarget ==
    /\ \E label \in {None} \cup {Some(l) : l \in Labels} :
        active_target_label' = label
    /\ TrackerResetState
    /\ trk_call' = [NoCall EXCEPT !.op = "reset"]
    /\ UNCHANGED issued
    /\ UNCHANGED <<running, boxVars, envVars, visVars, ctlVars, logVars>>
    /\ UNCHANGED <<bufVars, extVars>>

\* _control_loop, top of a tick: with no target the tick sleeps; otherwise
\* it reads the clock and, under the lock, consumes the mailbox.  Nothing
\* another thread does between the two reads changes what either sees, so
\* they are taken as one step.
TickConsume ==
    /\ running
    /\ ctl_pc = "check"
    /\ IF active_target_label = None
       THEN UNCHANGED <<ctl_pc, ctl_now, ctl_detection, boxVars, consumed>>
       ELSE /\ ctl_pc' = "decide"
            /\ ctl_now' = clock
            /\ IF last_detection # None
               THEN /\ ctl_detection' = last_detection
                    /\ last_detection' = MailboxConsume(last_detection)
                    /\ last_measurement_time' = last_detection[1].timestamp
                    /\ consumed' = Append(consumed, Consumed(last_detection[1]))
               ELSE /\ ctl_detection' = None
                    /\ UNCHANGED <<boxVars, consumed>>
    /\ UNCHANGED <<target_lost_active, ctl_writes>>
    /\ UNCHANGED <<last_written, overwritten>>
    /\ UNCHANGED <<running, active_target_label, envVars, visVars>>
    /\ UNCHANGED <<bufVars, trkVars, extVars>>

\* The tick ends: its locals go out of scope.
TickEnds ==
    /\ ctl_pc' = "check"
    /\ ctl_now' = 0
    /\ ctl_detection' = None

\* _control_loop, the rest of the tick: the recovery of the target-lost flag;
\* the target-lost check with its reset and recenter command; the hard
\* timeout with its stop command; cmd = self.tracker.update(detection,
\* robot_state) and the actuation of cmd.  robot_state, read at the top of
\* the tick, is an input nothing else depends on and is drawn here.
TickDecide ==
    /\ ctl_pc = "decide"
    /\ LET lost_active == IF ctl_detection # None THEN FALSE ELSE target_lost_active
           elapsed == ctl_now - last_measurement_time
       IN  IF last_measurement_time > 0 /\ elapsed > TargetLostTimeout
           THEN /\ IF ~lost_active
                   THEN /\ TrackerResetState
                        /\ trk_call' = [NoCall EXCEPT !.op = "lost"]
                        /\ issued' = Position(0, 0)
                        /\ ctl_writes' = 1 - ctl_writes
                   ELSE UNCHANGED <<trkVars, ctl_writes>>
                /\ target_lost_active' = TRUE
           ELSE IF last_measurement_time > 0 /\ elapsed > HardTimeout
           THEN /\ issued' = Velocity(0, 0)
                /\ ctl_writes' = 1 - ctl_writes
                /\ target_lost_active' = lost_active
                /\ UNCHANGED <<control_mode, smoother_yaw, smoother_pitch,
                               scheduler_yaw, scheduler_pitch, pid_yaw, pid_pitch,
                               trk_call>>
           ELSE /\ target_lost_active' = lost_active
                /\ \E raw_dt \in TickDts, robot_state \in RobotStates :
                    IF control_mode = "native"
                    THEN /\ HeadTrackerUpdateNative(raw_dt, ctl_detection, robot_state)
                         /\ ctl_writes' =
                                IF NativeResult(raw_dt, ctl_detection,
                                                robot_state).final # None
                                THEN 1 - ctl_writes
                                ELSE ctl_writes
                    ELSE /\ \E err \in TickPidErrors :
                                HeadTrackerUpdatePid(raw_dt, err[1], err[2])
                         /\ ctl_writes' = 1 - ctl_writes
    /\ TickEnds
    /\ UNCHANGED <<last_written, overwritten, consumed>>
    /\ UNCHANGED <<running, active_target_label, boxVars, envVars, visVars>>
    /\ UNCHANGED <<bufVars, extVars>>

Next ==
    \/ Start
    \/ Advance
    \/ FramePublish
    \/ VisionReceive
    \/ VisionDetect
    \/ SetTarget
    \/ TickConsume
    \/ TickDecide

(***************************************************************************)
(* The tuning configuration of the TrackingOrchestrator: the load at       *)
(* construction, the stiffness applied by start and the hot reload of the  *)
(* control loop, against a tuning.json that is edited on disk.             *)
(* A tuning dict is held as its two top-level entries, "stiffness" (its    *)
(* "min") and "native" (its gain), each None when the key is absent.       *)
(***************************************************************************)

\* stiff_cfg.get("min", 0.65), on a grid where 0.65 is 1.
DefaultStiffness == 1

\* if loop_counter % 100 == 0, with the period scaled to 2 ticks.
ReloadPeriod == 2

StiffnessValues == {DefaultStiffness, DefaultStiffness + 1}

GainValues == {KpNum, KpNum + 1}

\* The empty dict, which _load_tuning_config returns for a missing or
\* unreadable file.
EmptyConfig == [stiffness |-> None, native |-> None]

\* What json.load can return for tuning.json.
TuningDicts ==
    [stiffness : {None} \cup {Some(v) : v \in StiffnessValues},
     native : {None} \cup {Some(g) : g \in GainValues}]

\* dict.update: the entries of new_cfg replace those of cfg, the others stay.
ConfigUpdate(cfg, new_cfg) ==
    [stiffness |-> IF new_cfg.stiffness # None THEN new_cfg.stiffness ELSE cfg.stiffness,
     native |-> IF new_cfg.native # None THEN new_cfg.native ELSE cfg.native]

\* val = stiff_cfg.get("min", 0.65)
StiffnessOf(cfg) == IF cfg.stiffness # None THEN cfg.stiffness[1] ELSE DefaultStiffness

\* if new_cfg: an empty dict, which is what a failed load returns, is skipped.
LoadedAlways(new_cfg) == TRUE

Loaded(new_cfg) == new_cfg # EmptyConfig

\* What a reader holding the reference HeadTracker took at construction
\* (self.config = config or {}) reads: the orchestrator's dict as it is now,
\* or the empty dict of its own that an empty configuration gave it.
TrackerConfig == IF tracker_shares_config THEN config ELSE EmptyConfig

NoReload == [op |-> "init", sent |-> FALSE, val |-> 0, applied |-> None,
             unchanged |-> FALSE, config_before |-> EmptyConfig]

ReloadInit ==
    /\ tuning_file \in TuningDicts
    /\ config = tuning_file
    /\ loaded_file = tuning_file
    /\ started = FALSE
    /\ loop_counter = 0
    /\ last_stiff = None
    /\ applied_stiffness = None
    /\ rel_call = NoReload
    /\ tracker_shares_config = (tuning_file # EmptyConfig)

\* tuning.json is edited on disk.
EditTuningFile ==
    /\ \E f \in TuningDicts : tuning_file' = f
    /\ tuning_file' # tuning_file
    /\ UNCHANGED <<config, loaded_file, started, loop_counter, last_stiff,
                   applied_stiffness, rel_call, tracker_shares_config>>
    /\ UNCHANGED <<coreVars, itpVars, actVars, stopVars, loopVars, pclVars, lstVars, rcvVars, natVars, tgtVars>>

\* TrackingOrchestrator.start: the stiffness of the configuration is applied.
StartStiffness ==
    /\ ~started
    /\ started' = TRUE
    /\ applied_stiffness' = Some(StiffnessOf(config))
    /\ rel_call' = [NoReload EXCEPT !.op = "start", !.sent = TRUE,
                                    !.val = StiffnessOf(config),
                                    !.applied = applied_stiffness,
                                    !.config_before = config]
    /\ UNCHANGED <<tuning_file, config, loaded_file, loop_counter, last_stiff,
                   tracker_shares_config>>
    /\ UNCHANGED <<coreVars, itpVars, actVars, stopVars, loopVars, pclVars, lstVars, rcvVars, natVars, tgtVars>>

\* _control_loop: an iteration that does not reach the reload block (its
\* counter is no multiple of the period, there is no target, or the target
\* is lost); the counter counts every iteration.
TickNoReload ==
    /\ started
    /\ loop_counter' = (loop_counter + 1) % ReloadPeriod
    /\ rel_call' = [NoReload EXCEPT !.op = "tick"]
    /\ UNCHANGED <<tuning_file, config, loaded_file, started, last_stiff,
                   applied_stiffness, tracker_shares_config>>
    /\ UNCHANGED <<coreVars, itpVars, actVars, stopVars, loopVars, pclVars, lstVars, rcvVars, natVars, tgtVars>>

\* _control_loop: the hot reload: new_cfg = self._load_tuning_config(); a
\* non-empty new_cfg updates self.config in place, and the stiffness is set
\* when _last_stiff is missing or differs from the new value.
TickReload ==
    /\ started
    /\ (loop_counter + 1) % ReloadPeriod = 0
    /\ loop_counter' = 0
    /\ LET new_cfg == tuning_file
           cfg == ConfigUpdate(config, new_cfg)
           val == StiffnessOf(cfg)
           send == last_stiff = None \/ last_stiff[1] # val
       IN  IF Loaded(new_cfg)
           THEN /\ config' = cfg
                /\ last_stiff' = IF send THEN Some(val) ELSE last_stiff
                /\ applied_stiffness' = IF send THEN Some(val) ELSE applied_stiffness
                /\ rel_call' = [op |-> "reload", sent |-> send, val |-> val,
                                applied |-> applied_stiffness,
                                unchanged |-> tuning_file = loaded_file,
                                config_before |-> config]
           ELSE /\ UNCHANGED <<config, last_stiff, applied_stiffness>>
                /\ rel_call' = [op |-> "reload", sent |-> FALSE,
                                val |-> StiffnessOf(config),
                                applied |-> applied_stiffness,
                                unchanged |-> tuning_file = loaded_file,
                                config_before |-> config]
    /\ loaded_file' = tuning_file
    /\ UNCHANGED <<tuning_file, started, tracker_shares_config>>
    /\ UNCHANGED <<coreVars, itpVars, actVars, stopVars, loopVars, pclVars, lstVars, rcvVars, natVars, tgtVars>>

ReloadNext == EditTuningFile \/ StartStiffness \/ TickNoReload \/ TickReload

(***************************************************************************)
(* PerceptionInterpreter.interpret, applied to every payload of a bounded  *)
(* family.  Confidences are in units of 0.25, so that the floor 0.25 is 1  *)
(* and the landmark confidence 1.0 is 4; landmark coordinates are in       *)
(* halves of the frame; box coordinates are in pixels, multiples of 10.    *)
(***************************************************************************)

\* Bounds of the payloads.
MaxDets == 2                \* records in a detection list
MaxCalls == 2               \* calls of interpret on one payload

\* PerceptionInterpreter.__init__: width and height, in units of 80 pixels.
ItpWidth == 4
ItpHeight == 3

\* det["confidence"] > 0.25 and confidence=1.0.
ConfidenceFloor == 1
LandmarkConfidence == 4

\* Landmark coordinates are numerators over LandmarkDen.
LandmarkDen == 2

\* y1 + (0.4 * height), as BiasNum / BiasDen.
BiasNum == 2
BiasDen == 5

\* str.lower on the labels of the family.
Lower(label) ==
    CASE label = "Person" -> "person"
      [] label = "FACE" -> "face"
      [] OTHER -> label

HumanLabels == {"person", "human", "face", "man", "woman"}

TargetLabels == {None, Some("person"), Some("Person"), Some("FACE"), Some("cup")}

Landmarks == {<<1, 2>>}

PoseLists == {<<>>} \cup {<<p>> : p \in Landmarks}

\* Boxes [xmin, ymin, xmax, ymax].
Boxes == {<<100, 100, 200, ymax>> : ymax \in {100, 200, 300}}

Confidences == {ConfidenceFloor, ConfidenceFloor + 1, ConfidenceFloor + 2}

DetRecords == [class : {"person", "cup"}, confidence : Confidences, bbox : Boxes]

DetLists == UNION {[1..n -> DetRecords] : n \in 0..MaxDets}

\* raw_data: None, a list of records, or a dict with the optional keys
\* "pose_landmarks" and "detections".
Payloads ==
    {[kind |-> "null", pose |-> None, dets |-> None]}
    \cup {[kind |-> "list", pose |-> None, dets |-> Some(l)] : l \in DetLists}
    \cup [kind : {"dict"}, pose : {None} \cup {Some(p) : p \in PoseLists},
          dets : {None} \cup {Some(l) : l \in DetLists}]

MakeItpDetection(label, confidence, bbox, timestamp, source_angles) ==
    Some([label |-> label, confidence |-> confidence, bbox |-> bbox,
          timestamp |-> timestamp, source_angles |-> source_angles])

\* is_person_target = target_label.lower() in [...]
IsPersonTargetExact(label) == label \in HumanLabels

IsPersonTarget(label) == Lower(label) \in HumanLabels

\* The landmark rule applies: a dict with a non-empty "pose_landmarks".
HasLandmarks(raw_data) ==
    raw_data.kind = "dict" /\ raw_data.pose # None /\ Len(raw_data.pose[1]) > 0

\* detections_list
DetectionsList(raw_data) ==
    IF raw_data.kind \in {"list", "dict"} /\ raw_data.dets # None
    THEN raw_data.dets[1]
    ELSE <<>>

\* det["class"] == target_label and det["confidence"] > 0.25
QualifiesAtFloor(det, label) ==
    det.class = label /\ det.confidence >= ConfidenceFloor

Qualifies(det, label) ==
    det.class = label /\ det.confidence > ConfidenceFloor

\* The scan of detections_list: best_det (None or the record) after the
\* records from index i on, having best and max_conf so far.
RECURSIVE ScanDetections(_, _, _, _, _)
ScanDetections(dets, i, label, best, max_conf) ==
    IF i > Len(dets)
    THEN [best_det |-> best, max_conf |-> max_conf]
    ELSE IF Qualifies(dets[i], label) /\ dets[i].confidence > max_conf
         THEN ScanDetections(dets, i + 1, label, Some(dets[i]), dets[i].confidence)
         ELSE ScanDetections(dets, i + 1, label, best, max_conf)

\* max_conf = 0.0, whatever an earlier call left.
InitialMaxConfCarried(left) == left

InitialMaxConf(left) == 0

\* Social Bias: the ymax of the virtual box.
BiasedYmaxOff(y1, y2) == y2

BiasedYmax(y1, y2) == y1 + (BiasNum * (y2 - y1)) \div BiasDen

\* interpret: the Detection or None, and the max_conf the call ends with.
Interpret(raw_data, target_label, timestamp, source_angles, left) ==
    IF target_label = None
    THEN [detection |-> None, max_conf |-> left]
    ELSE LET label == target_label[1]
             scan == ScanDetections(DetectionsList(raw_data), 1, label, None,
                                    InitialMaxConf(left))
         IN  IF IsPersonTarget(label) /\ HasLandmarks(raw_data)
             THEN LET nose == raw_data.pose[1][1]
                      nx == (nose[1] * ItpWidth) \div LandmarkDen
                      ny == (nose[2] * ItpHeight) \div LandmarkDen
                  IN  [detection |-> MakeItpDetection(label, LandmarkConfidence,
                                                      <<nx, ny, nx, ny>>, timestamp,
                                                      source_angles),
                       max_conf |-> left]
             ELSE IF scan.best_det = None
             THEN [detection |-> None, max_conf |-> scan.max_conf]
             ELSE LET bx == scan.best_det[1].bbox
                  IN  [detection |->
                           MakeItpDetection(
                               label, scan.best_det[1].confidence,
                               IF IsPersonTarget(label)
                               THEN <<bx[1], bx[2], bx[3], BiasedYmax(bx[2], bx[4])>>
                               ELSE bx,
                               timestamp, source_angles),
                       max_conf |-> scan.max_conf]

NotCalled == [detection |-> None, max_conf |-> 0]

ItpInit ==
    /\ itp_raw_data \in Payloads
    /\ itp_target_label \in TargetLabels
    /\ itp_source_angles \in RobotStates
    /\ itp_calls = 0
    /\ itp_last = NotCalled
    /\ itp_prev = NotCalled

\* A call of interpret on the payload, at timestamp 1.
InterpretCall ==
    /\ itp_calls < MaxCalls
    /\ itp_calls' = itp_calls + 1
    /\ itp_prev' = itp_last
    /\ itp_last' = Interpret(itp_raw_data, itp_target_label, 1, itp_source_angles,
                             itp_last.max_conf)
    /\ UNCHANGED <<itp_raw_data, itp_target_label, itp_source_angles>>
    /\ UNCHANGED <<coreVars, reloadVars, actVars, stopVars, loopVars, pclVars, lstVars, rcvVars, natVars, tgtVars>>

ItpNext == InterpretCall

(***************************************************************************)
(* RobotActuator: the command mailbox (queue.Queue(maxsize=1)), its two    *)
(* writers (the control thread through set_head_position, a caller of      *)
(* yield_control through set_head_velocity) and the actuator thread.  Each *)
(* operation of the queue is one step, the queue's own mutex making it      *)
(* atomic; _send_internal holds no lock across its operations.             *)
(***************************************************************************)

\* Bound on the set_head_position / set_head_velocity calls of a behaviour.
MaxCmds == 3

\* queue.Queue(maxsize=1)
QueueMaxSize == 1

Writers == {"control", "yield_control"}

\* The command of a writer: the control thread queues positions,
\* yield_control queues the zero velocity.
CommandType(w) == IF w = "control" THEN "position" ELSE "velocity"

NoCmd == [id |-> 0, type |-> "none"]

NoSend == [op |-> "init", cmd |-> NoCmd, mailbox |-> <<>>, yielded |-> FALSE]

ActInit ==
    /\ command_queue = <<>>
    /\ wr_pc = [w \in Writers |-> "idle"]
    /\ wr_cmd = [w \in Writers |-> NoCmd]
    /\ next_cmd = 1
    /\ act_pc = "check"
    /\ act_cmd = NoCmd
    /\ wr_ret = NoSend
    /\ act_sent = NoSend
    /\ act_label = FALSE
    /\ act_yielded = FALSE
    /\ act_stop = FALSE
    /\ act_at_stop = <<>>
    /\ act_errors = 0

\* Faulty variant: an exception of set_angles ends the thread.
AfterCommandUncaught(ok) == IF ok THEN "check" ELSE "exited"

\* run, after a command has been handled, whether set_angles returned or
\* raised: the except clause prints, the loop sleeps and goes round.
AfterCommand(ok) == "check"

\* set_target(label) with a label, called by the operator's or the
\* listener's thread.
ActSetTarget ==
    /\ act_label' = TRUE
    /\ act_yielded' = FALSE
    /\ UNCHANGED <<command_queue, wr_pc, wr_cmd, next_cmd, act_pc, act_cmd, wr_ret,
                   act_sent, act_stop, act_at_stop, act_errors>>
    /\ UNCHANGED <<coreVars, reloadVars, itpVars, stopVars, loopVars, pclVars, lstVars, rcvVars, natVars, tgtVars>>

\* _control_loop: a tick finds a target (line 130) and goes on towards
\* tracker.update and set_head_position.
TickBegin ==
    /\ wr_pc["control"] = "idle"
    /\ act_label
    /\ next_cmd <= MaxCmds
    /\ wr_pc' = [wr_pc EXCEPT !["control"] = "tick"]
    /\ UNCHANGED <<command_queue, wr_cmd, next_cmd, act_pc, act_cmd, wr_ret, act_sent,
                   act_label, act_yielded, act_stop, act_at_stop, act_errors>>
    /\ UNCHANGED <<coreVars, reloadVars, itpVars, stopVars, loopVars, pclVars, lstVars, rcvVars, natVars, tgtVars>>

\* set_head_position / set_head_velocity: build cmd and enter _send_internal.
\* The control thread arrives from its tick; yield_control has cleared the
\* target and reset the tracker just before.
SendBegin ==
    \E w \in Writers :
        /\ wr_pc[w] = IF w = "control" THEN "tick" ELSE "idle"
        /\ next_cmd <= MaxCmds
        /\ wr_cmd' = [wr_cmd EXCEPT ![w] = [id |-> next_cmd, type |-> CommandType(w)]]
        /\ next_cmd' = next_cmd + 1
        /\ wr_pc' = [wr_pc EXCEPT ![w] = "empty"]
        /\ act_label' = IF w = "yield_control" THEN FALSE ELSE act_label
        /\ UNCHANGED <<command_queue, act_pc, act_cmd, wr_ret, act_sent,
                       act_yielded, act_stop, act_at_stop, act_errors>>
        /\ UNCHANGED <<coreVars, reloadVars, itpVars, stopVars, loopVars, pclVars, lstVars, rcvVars, natVars, tgtVars>>

\* while not self.command_queue.empty():
SendEmptyCheck ==
    \E w \in Writers :
        /\ wr_pc[w] = "empty"
        /\ wr_pc' = [wr_pc EXCEPT ![w] = IF command_queue # <<>> THEN "get_nowait"
                                                                 ELSE "put_nowait"]
        /\ UNCHANGED <<command_queue, wr_cmd, next_cmd, act_pc, act_cmd, wr_ret, act_sent,
                       act_label, act_yielded, act_stop, act_at_stop, act_errors>>
        /\ UNCHANGED <<coreVars, reloadVars, itpVars, stopVars, loopVars, pclVars, lstVars, rcvVars, natVars, tgtVars>>

\* self.command_queue.get_nowait(); queue.Empty leaves the loop.
SendGetNowait ==
    \E w \in Writers :
        /\ wr_pc[w] = "get_nowait"
        /\ IF command_queue # <<>>
           THEN /\ command_queue' = Tail(command_queue)
                /\ wr_pc' = [wr_pc EXCEPT ![w] = "empty"]
           ELSE /\ command_queue' = command_queue
                /\ wr_pc' = [wr_pc EXCEPT ![w] = "put_nowait"]
        /\ UNCHANGED <<wr_cmd, next_cmd, act_pc, act_cmd, wr_ret, act_sent,
                       act_label, act_yielded, act_stop, act_at_stop, act_errors>>
        /\ UNCHANGED <<coreVars, reloadVars, itpVars, stopVars, loopVars, pclVars, lstVars, rcvVars, natVars, tgtVars>>

\* self.command_queue.put_nowait(command); queue.Full is passed over.  The
\* call returns; wr_ret keeps what the mailbox held at that moment.  With
\* set_head_velocity, yield_control returns.
SendPutNowait ==
    \E w \in Writers :
        /\ wr_pc[w] = "put_nowait"
        /\ command_queue' = IF Len(command_queue) < QueueMaxSize
                            THEN Append(command_queue, wr_cmd[w])
                            ELSE command_queue
        /\ wr_ret' = [op |-> "send", cmd |-> wr_cmd[w], mailbox |-> command_queue']
        /\ wr_pc' = [wr_pc EXCEPT ![w] = "idle"]
        /\ act_yielded' = IF w = "yield_control" THEN TRUE ELSE act_yielded
        /\ UNCHANGED <<wr_cmd, next_cmd, act_pc, act_cmd, act_sent,
                       act_label, act_stop, act_at_stop, act_errors>>
        /\ UNCHANGED <<coreVars, reloadVars, itpVars, stopVars, loopVars, pclVars, lstVars, rcvVars, natVars, tgtVars>>

\* stop: self._stop_event.set().  act_at_stop keeps what the mailbox held.
ActStop ==
    /\ ~act_stop
    /\ act_stop' = TRUE
    /\ act_at_stop' = command_queue
    /\ UNCHANGED <<command_queue, wr_pc, wr_cmd, next_cmd, act_pc, act_cmd, wr_ret,
                   act_sent, act_label, act_yielded, act_errors>>
    /\ UNCHANGED <<coreVars, reloadVars, itpVars, stopVars, loopVars, pclVars, lstVars, rcvVars, natVars, tgtVars>>

\* run: while not self._stop_event.is_set().  When the thread leaves the
\* loop, act_sent keeps what the mailbox held.
ActCheck ==
    /\ act_pc = "check"
    /\ IF act_stop
       THEN /\ act_pc' = "exited"
            /\ act_sent' = [op |-> "exit", cmd |-> NoCmd, mailbox |-> command_queue,
                            yielded |-> act_yielded]
       ELSE /\ act_pc' = "get"
            /\ UNCHANGED act_sent
    /\ UNCHANGED <<command_queue, wr_pc, wr_cmd, next_cmd, act_cmd, wr_ret,
                   act_label, act_yielded, act_stop, act_at_stop, act_errors>>
    /\ UNCHANGED <<coreVars, reloadVars, itpVars, stopVars, loopVars, pclVars, lstVars, rcvVars, natVars, tgtVars>>

\* run: cmd = self.command_queue.get(timeout=0.1) returns a command.
ActGet ==
    /\ act_pc = "get"
    /\ command_queue # <<>>
    /\ act_cmd' = Head(command_queue)
    /\ command_queue' = Tail(command_queue)
    /\ act_pc' = "send"
    /\ UNCHANGED <<wr_pc, wr_cmd, next_cmd, wr_ret, act_sent,
                   act_label, act_yielded, act_stop, act_at_stop, act_errors>>
    /\ UNCHANGED <<coreVars, reloadVars, itpVars, stopVars, loopVars, pclVars, lstVars, rcvVars, natVars, tgtVars>>

\* run: the get times out on an empty queue (queue.Empty: continue).
ActGetTimeout ==
    /\ act_pc = "get"
    /\ command_queue = <<>>
    /\ act_pc' = "check"
    /\ UNCHANGED <<command_queue, wr_pc, wr_cmd, next_cmd, act_cmd, wr_ret, act_sent,
                   act_label, act_yielded, act_stop, act_at_stop, act_errors>>
    /\ UNCHANGED <<coreVars, reloadVars, itpVars, stopVars, loopVars, pclVars, lstVars, rcvVars, natVars, tgtVars>>

\* run: self.client.set_angles(...) for a position, nothing for a velocity.
\* The RPC returns or raises; the except clause prints the error.  act_sent
\* keeps what the mailbox held at the moment of the call, and whether
\* yield_control had returned with no set_target since.
ActSend ==
    /\ act_pc = "send"
    /\ \E ok \in BOOLEAN :
           /\ act_cmd.type = "position" \/ ok
           /\ act_sent' = [op |-> CASE act_cmd.type # "position" -> "pass"
                                    [] ok -> "set_angles"
                                    [] OTHER -> "error",
                           cmd |-> act_cmd, mailbox |-> command_queue,
                           yielded |-> act_yielded]
           /\ act_errors' = IF ok THEN act_errors ELSE act_errors + 1
           /\ act_pc' = AfterCommand(ok)
    /\ UNCHANGED <<command_queue, wr_pc, wr_cmd, next_cmd, act_cmd, wr_ret,
                   act_label, act_yielded, act_stop, act_at_stop>>
    /\ UNCHANGED <<coreVars, reloadVars, itpVars, stopVars, loopVars, pclVars, lstVars, rcvVars, natVars, tgtVars>>

ActNext ==
    \/ ActSetTarget
    \/ TickBegin
    \/ SendBegin
    \/ SendEmptyCheck
    \/ SendGetNowait
    \/ SendPutNowait
    \/ ActStop
    \/ ActCheck
    \/ ActGet
    \/ ActGetTimeout
    \/ ActSend

(***************************************************************************)
(* Shutdown: CommandHandler.cleanup and TrackingOrchestrator.stop, with    *)
(* the threads they stop.  A thread leaves its loop when it finds its flag *)
(* cleared at the top of an iteration; stop() of the two receivers joins   *)
(* the thread, stop() of the listener and of the actuator only clears the  *)
(* flag, and the control thread is joined with a timeout.                  *)
(***************************************************************************)

\* The threads, each with the flag its loop tests: ZMQCommandListener.running,
\* VisionClient.running, StateClient.running, RobotActuator._stop_event
\* (negated) and TrackingOrchestrator.running.
Threads == {"listener", "vision", "state", "actuator", "control"}

\* The stop order of the components.
StopOrder == <<"listener", "vision", "state", "perception", "actuator", "control">>

\* The application running: every thread started, the perception socket open.
StopInit ==
    /\ stop_pc = "cleanup"
    /\ run_flag = [t \in Threads |-> TRUE]
    /\ thread_pc = [t \in Threads |-> "check"]
    /\ perception_open = TRUE

\* The top of a thread's loop: while self.running / while not is_set().
ThreadCheck ==
    \E t \in Threads :
        /\ thread_pc[t] = "check"
        /\ thread_pc' = [thread_pc EXCEPT ![t] = IF run_flag[t] THEN "body" ELSE "exited"]
        /\ UNCHANGED <<stop_pc, run_flag, perception_open>>
        /\ UNCHANGED <<coreVars, reloadVars, itpVars, actVars, loopVars, pclVars, lstVars, rcvVars, natVars, tgtVars>>

\* One iteration of a thread's loop.
ThreadBody ==
    \E t \in Threads :
        /\ thread_pc[t] = "body"
        /\ thread_pc' = [thread_pc EXCEPT ![t] = "check"]
        /\ UNCHANGED <<stop_pc, run_flag, perception_open>>
        /\ UNCHANGED <<coreVars, reloadVars, itpVars, actVars, loopVars, pclVars, lstVars, rcvVars, natVars, tgtVars>>

\* cleanup: self.cmd_listener.stop(), then stop_teleop and _restore_social.
CleanupListenerStop ==
    /\ stop_pc = "cleanup"
    /\ run_flag' = [run_flag EXCEPT !["listener"] = FALSE]
    /\ stop_pc' = "stop"
    /\ UNCHANGED <<thread_pc, perception_open>>
    /\ UNCHANGED <<coreVars, reloadVars, itpVars, actVars, loopVars, pclVars, lstVars, rcvVars, natVars, tgtVars>>

\* stop: self.running = False
StopClearRunning ==
    /\ stop_pc = "stop"
    /\ run_flag' = [run_flag EXCEPT !["control"] = FALSE]
    /\ stop_pc' = "vision_stop"
    /\ UNCHANGED <<thread_pc, perception_open>>
    /\ UNCHANGED <<coreVars, reloadVars, itpVars, actVars, loopVars, pclVars, lstVars, rcvVars, natVars, tgtVars>>

\* stop: self.vision.stop()
VisionStop ==
    /\ stop_pc = "vision_stop"
    /\ run_flag' = [run_flag EXCEPT !["vision"] = FALSE]
    /\ stop_pc' = "vision_join"
    /\ UNCHANGED <<thread_pc, perception_open>>
    /\ UNCHANGED <<coreVars, reloadVars, itpVars, actVars, loopVars, pclVars, lstVars, rcvVars, natVars, tgtVars>>

\* self.vision.stop() joins the thread: it returns once the thread has left its loop.
VisionJoin ==
    /\ stop_pc = "vision_join"
    /\ thread_pc["vision"] = "exited"
    /\ stop_pc' = "state_stop"
    /\ UNCHANGED <<run_flag, thread_pc, perception_open>>
    /\ UNCHANGED <<coreVars, reloadVars, itpVars, actVars, loopVars, pclVars, lstVars, rcvVars, natVars, tgtVars>>

\* stop: self.state.stop()
StateStop ==
    /\ stop_pc = "state_stop"
    /\ run_flag' = [run_flag EXCEPT !["state"] = FALSE]
    /\ stop_pc' = "state_join"
    /\ UNCHANGED <<thread_pc, perception_open>>
    /\ UNCHANGED <<coreVars, reloadVars, itpVars, actVars, loopVars, pclVars, lstVars, rcvVars, natVars, tgtVars>>

\* self.state.stop() joins the thread: it returns once the thread has left its loop.
StateJoin ==
    /\ stop_pc = "state_join"
    /\ thread_pc["state"] = "exited"
    /\ stop_pc' = "perception_close"
    /\ UNCHANGED <<run_flag, thread_pc, perception_open>>
    /\ UNCHANGED <<coreVars, reloadVars, itpVars, actVars, loopVars, pclVars, lstVars, rcvVars, natVars, tgtVars>>

\* stop: self.perception.close()
PerceptionClose ==
    /\ stop_pc = "perception_close"
    /\ perception_open' = FALSE
    /\ stop_pc' = "actuator_stop"
    /\ UNCHANGED <<run_flag, thread_pc>>
    /\ UNCHANGED <<coreVars, reloadVars, itpVars, actVars, loopVars, pclVars, lstVars, rcvVars, natVars, tgtVars>>

\* stop: self.actuator.stop_service(); self.actuator.stop()
ActuatorStop ==
    /\ stop_pc = "actuator_stop"
    /\ run_flag' = [run_flag EXCEPT !["actuator"] = FALSE]
    /\ stop_pc' = "join"
    /\ UNCHANGED <<thread_pc, perception_open>>
    /\ UNCHANGED <<coreVars, reloadVars, itpVars, actVars, loopVars, pclVars, lstVars, rcvVars, natVars, tgtVars>>

\* stop: self.control_thread.join(timeout=1.0) returns when the thread has
\* ended or when the second has passed.
ControlJoin ==
    /\ stop_pc = "join"
    /\ stop_pc' = "done"
    /\ UNCHANGED <<run_flag, thread_pc, perception_open>>
    /\ UNCHANGED <<coreVars, reloadVars, itpVars, actVars, loopVars, pclVars, lstVars, rcvVars, natVars, tgtVars>>

StopNext ==
    \/ ThreadCheck
    \/ ThreadBody
    \/ CleanupListenerStop
    \/ StopClearRunning
    \/ VisionStop
    \/ VisionJoin
    \/ StateStop
    \/ StateJoin
    \/ PerceptionClose
    \/ ActuatorStop
    \/ ControlJoin

(***************************************************************************)
(* The control thread: the while loop of _control_loop, one action per     *)
(* branch a tick can take, with the rate-keeping sleep at the end of the   *)
(* loop body.  Time unit 0.5 s as in the orchestrator; target_lost_timeout *)
(* is read from the configuration.  tracker.update and the state lookup    *)
(* are calls that return or raise; the loop body has no try/except.        *)
(***************************************************************************)

\* Bound on the clock of the loop.
MaxLoopTime == 4

\* target_lost_timeout: the default 0.5 s and a configured 1.5 s.
LostTimeouts == {TargetLostTimeout, TargetLostTimeout + 2}

\* The calls of a tick that can raise into the loop body.
TickFailures == {"state_lookup", "config_read", "tracker_update"}

NoTick == [op |-> "init", branch |-> "none", elapsed |-> 0, measured |-> FALSE,
           command |-> NoCommand, updated |-> FALSE, since_target |-> 0,
           before |-> "none", detection |-> FALSE]

LoopInit ==
    /\ loop_pc = "while"
    /\ loop_running = TRUE
    /\ loop_label = FALSE
    /\ loop_now = 1
    /\ loop_lmt = 0
    /\ loop_box = None
    /\ loop_lost_active = FALSE
    /\ loop_lost_timeout \in LostTimeouts
    /\ loop_slept = TRUE
    /\ loop_call = NoTick
    /\ loop_target_since = 0
    /\ loop_since_recenter = "none"

\* The capture times a Detection written now can carry: the frame was
\* captured before perception.detect was called, frames reach the callback
\* in the order of their capture, and only frames captured since the target
\* was set are considered.
CaptureTimes == {t \in 1..loop_now : t >= loop_lmt /\ t >= loop_target_since}

\* The environment of the loop: the clock, set_target, the vision callback
\* (on_frame_received writes the mailbox and last_measurement_time) and stop.
LoopAdvance ==
    /\ loop_now < MaxLoopTime
    /\ loop_now' = loop_now + 1
    /\ UNCHANGED <<loop_pc, loop_running, loop_label, loop_lmt, loop_box,
                   loop_lost_active, loop_lost_timeout, loop_slept, loop_call>>
    /\ UNCHANGED <<loop_target_since, loop_since_recenter>>
    /\ UNCHANGED <<coreVars, reloadVars, itpVars, actVars, stopVars, pclVars, lstVars, rcvVars, natVars, tgtVars>>

LoopSetTarget ==
    /\ loop_label' = ~loop_label
    /\ loop_target_since' = IF loop_label THEN loop_target_since ELSE loop_now
    /\ UNCHANGED loop_since_recenter
    /\ UNCHANGED <<loop_pc, loop_running, loop_now, loop_lmt, loop_box,
                   loop_lost_active, loop_lost_timeout, loop_slept, loop_call>>
    /\ UNCHANGED <<coreVars, reloadVars, itpVars, actVars, stopVars, pclVars, lstVars, rcvVars, natVars, tgtVars>>

LoopFrame ==
    /\ loop_running
    /\ loop_label
    /\ \E timestamp \in CaptureTimes :
           /\ loop_box' = Some(timestamp)
           /\ loop_lmt' = timestamp
    /\ UNCHANGED <<loop_pc, loop_running, loop_label, loop_now,
                   loop_lost_active, loop_lost_timeout, loop_slept, loop_call>>
    /\ UNCHANGED <<loop_target_since, loop_since_recenter>>
    /\ UNCHANGED <<coreVars, reloadVars, itpVars, actVars, stopVars, pclVars, lstVars, rcvVars, natVars, tgtVars>>

LoopStop ==
    /\ loop_running
    /\ loop_running' = FALSE
    /\ UNCHANGED <<loop_pc, loop_label, loop_now, loop_lmt, loop_box,
                   loop_lost_active, loop_lost_timeout, loop_slept, loop_call>>
    /\ UNCHANGED <<loop_target_since, loop_since_recenter>>
    /\ UNCHANGED <<coreVars, reloadVars, itpVars, actVars, stopVars, pclVars, lstVars, rcvVars, natVars, tgtVars>>

\* What a tick has after its consume: last_measurement_time and
\* target_lost_active (lines 140-152).
LmtAfterConsume == IF loop_box # None THEN loop_box[1] ELSE loop_lmt

LostAfterConsume == IF loop_box # None THEN FALSE ELSE loop_lost_active

Elapsed == loop_now - LmtAfterConsume

\* The two timeout checks (lines 155 and 176).
TargetLost == LmtAfterConsume > 0 /\ Elapsed > loop_lost_timeout

HardTimedOut == LmtAfterConsume > 0 /\ Elapsed > HardTimeout

TickRecord(branch, command, updated) ==
    [op |-> "tick", branch |-> branch, elapsed |-> Elapsed,
     measured |-> LmtAfterConsume > 0, command |-> command, updated |-> updated,
     since_target |-> loop_now - loop_target_since, before |-> loop_since_recenter,
     detection |-> loop_box # None]

\* while self.running: false, the thread ends.
LoopExit ==
    /\ loop_pc = "while"
    /\ ~loop_running
    /\ loop_pc' = "exited"
    /\ UNCHANGED <<loop_running, loop_label, loop_now, loop_lmt, loop_box,
                   loop_lost_active, loop_lost_timeout, loop_slept, loop_call>>
    /\ UNCHANGED <<loop_target_since, loop_since_recenter>>
    /\ UNCHANGED <<coreVars, reloadVars, itpVars, actVars, stopVars, pclVars, lstVars, rcvVars, natVars, tgtVars>>

\* A tick without an active target: straight to the sleep.
TickIdle ==
    /\ loop_pc = "while"
    /\ loop_running
    /\ ~loop_label
    /\ loop_pc' = "sleep"
    /\ loop_slept' = FALSE
    /\ loop_call' = [NoTick EXCEPT !.op = "tick", !.branch = "idle"]
    /\ UNCHANGED <<loop_running, loop_label, loop_now, loop_lmt, loop_box,
                   loop_lost_active, loop_lost_timeout>>
    /\ UNCHANGED <<loop_target_since, loop_since_recenter>>
    /\ UNCHANGED <<coreVars, reloadVars, itpVars, actVars, stopVars, pclVars, lstVars, rcvVars, natVars, tgtVars>>

\* A tick whose state lookup (line 133), read of the configuration (line
\* 148, on a "native" entry that is no dict) or tracker.update (line 181)
\* raises: nothing in the loop catches it, the thread ends.
TickRaises ==
    /\ loop_pc = "while"
    /\ loop_running
    /\ loop_label
    /\ \E failure \in TickFailures :
           CASE failure = "state_lookup" ->
                    /\ loop_call' = [NoTick EXCEPT !.op = "raise", !.branch = failure]
                    /\ UNCHANGED <<loop_lmt, loop_box, loop_lost_active>>
             [] failure = "config_read" ->
                    /\ loop_call' = [TickRecord(failure, NoCommand, FALSE)
                                         EXCEPT !.op = "raise"]
                    /\ loop_lmt' = LmtAfterConsume
                    /\ loop_box' = None
                    /\ UNCHANGED loop_lost_active
             [] failure = "tracker_update" ->
                    /\ ~TargetLost
                    /\ ~HardTimedOut
                    /\ loop_call' = [TickRecord(failure, NoCommand, FALSE)
                                         EXCEPT !.op = "raise"]
                    /\ loop_lmt' = LmtAfterConsume
                    /\ loop_box' = None
                    /\ loop_lost_active' = LostAfterConsume
    /\ loop_pc' = "dead"
    /\ loop_slept' = FALSE
    /\ UNCHANGED <<loop_running, loop_label, loop_now, loop_lost_timeout>>
    /\ UNCHANGED <<loop_target_since, loop_since_recenter>>
    /\ UNCHANGED <<coreVars, reloadVars, itpVars, actVars, stopVars, pclVars, lstVars, rcvVars, natVars, tgtVars>>

\* A tick that finds the target lost (lines 155-160): reset and recentre
\* once per loss, then continue.
TickLost ==
    /\ loop_pc = "while"
    /\ loop_running
    /\ loop_label
    /\ TargetLost
    /\ loop_lmt' = LmtAfterConsume
    /\ loop_box' = None
    /\ loop_lost_active' = TRUE
    /\ loop_call' = TickRecord("lost",
                               IF LostAfterConsume THEN NoCommand ELSE Position(0, 0),
                               FALSE)
    /\ loop_since_recenter' = IF LostAfterConsume THEN loop_since_recenter ELSE "starved"
    /\ UNCHANGED loop_target_since
    /\ loop_pc' = "while"
    /\ loop_slept' = FALSE
    /\ UNCHANGED <<loop_running, loop_label, loop_now, loop_lost_timeout>>
    /\ UNCHANGED <<coreVars, reloadVars, itpVars, actVars, stopVars, pclVars, lstVars, rcvVars, natVars, tgtVars>>

\* A tick that passes the target-lost check and meets the 1.0 s check
\* (lines 176-179): zero velocity, then continue.
TickHardTimeout ==
    /\ loop_pc = "while"
    /\ loop_running
    /\ loop_label
    /\ ~TargetLost
    /\ HardTimedOut
    /\ loop_lmt' = LmtAfterConsume
    /\ loop_box' = None
    /\ loop_lost_active' = LostAfterConsume
    /\ loop_call' = TickRecord("hard", Velocity(0, 0), FALSE)
    /\ loop_pc' = "while"
    /\ loop_slept' = FALSE
    /\ UNCHANGED <<loop_running, loop_label, loop_now, loop_lost_timeout>>
    /\ UNCHANGED <<loop_target_since, loop_since_recenter>>
    /\ UNCHANGED <<coreVars, reloadVars, itpVars, actVars, stopVars, pclVars, lstVars, rcvVars, natVars, tgtVars>>

\* A tick that updates the tracker and actuates (lines 181-189), then goes
\* to the sleep.
TickUpdate ==
    /\ loop_pc = "while"
    /\ loop_running
    /\ loop_label
    /\ ~TargetLost
    /\ ~HardTimedOut
    /\ loop_lmt' = LmtAfterConsume
    /\ loop_box' = None
    /\ loop_lost_active' = LostAfterConsume
    /\ loop_call' = TickRecord("update", NoCommand, TRUE)
    /\ loop_since_recenter' = IF loop_box # None /\ loop_since_recenter = "starved"
                              THEN "fed" ELSE loop_since_recenter
    /\ UNCHANGED loop_target_since
    /\ loop_pc' = "sleep"
    /\ loop_slept' = FALSE
    /\ UNCHANGED <<loop_running, loop_label, loop_now, loop_lost_timeout>>
    /\ UNCHANGED <<coreVars, reloadVars, itpVars, actVars, stopVars, pclVars, lstVars, rcvVars, natVars, tgtVars>>

\* The sleep that keeps the rate (lines 192-195).
LoopSleep ==
    /\ loop_pc = "sleep"
    /\ loop_pc' = "while"
    /\ loop_slept' = TRUE
    /\ UNCHANGED <<loop_running, loop_label, loop_now, loop_lmt, loop_box,
                   loop_lost_active, loop_lost_timeout, loop_call>>
    /\ UNCHANGED <<loop_target_since, loop_since_recenter>>
    /\ UNCHANGED <<coreVars, reloadVars, itpVars, actVars, stopVars, pclVars, lstVars, rcvVars, natVars, tgtVars>>

LoopNext ==
    \/ LoopAdvance
    \/ LoopSetTarget
    \/ LoopFrame
    \/ LoopStop
    \/ LoopExit
    \/ TickIdle
    \/ TickRaises
    \/ TickLost
    \/ TickHardTimeout
    \/ TickUpdate
    \/ LoopSleep

(***************************************************************************)
(* PerceptionClient.detect on its REQ socket, with the perception service  *)
(* at the other end.  A REQ socket alternates between send-ready and       *)
(* reply-pending: send is an error while a reply is pending.  The service  *)
(* answers a request with a JSON object or with something recv_json cannot *)
(* parse, or not at all; a reply to a socket that has been closed is       *)
(* dropped.                                                                *)
(***************************************************************************)

\* Bound on the detect calls of a behaviour.
MaxDetects == 4

ReplyKinds == {"json", "garbage"}

NoDetect == [op |-> "init", result |-> None, entry |-> "send_ready", socket_before |-> 0]

\* self.context.socket(zmq.REQ); self.socket.connect(...)
NewSocket(generation) == [id |-> generation, state |-> "send_ready"]

\* The timeout branch: close the socket and open a new one (lines 38-40).
KeepSocket(socket) == socket

ReopenSocket(socket) == NewSocket(socket.id + 1)

PclInit ==
    /\ pcl_pc = "idle"
    /\ pcl_socket = NewSocket(1)
    /\ pcl_entry = "send_ready"
    /\ pcl_requests = {}
    /\ pcl_replies = {}
    /\ pcl_calls = 0
    /\ pcl_call = NoDetect

DetectReturn(op, result) ==
    [op |-> op, result |-> result, entry |-> pcl_socket.state,
     socket_before |-> pcl_socket.id]

\* detect: cv2.imencode raises (an image that cannot be encoded); the
\* except clause returns None before anything is sent.
DetectEncodeFails ==
    /\ pcl_pc = "idle"
    /\ pcl_calls < MaxDetects
    /\ pcl_calls' = pcl_calls + 1
    /\ pcl_entry' = pcl_socket.state
    /\ pcl_call' = DetectReturn("encode_error", None)
    /\ UNCHANGED <<pcl_pc, pcl_socket, pcl_requests, pcl_replies>>
    /\ UNCHANGED <<coreVars, reloadVars, itpVars, actVars, stopVars, loopVars, lstVars, rcvVars, natVars, tgtVars>>

\* detect: self.socket.send_multipart(...).  On a socket with a reply
\* pending the send raises and the except clause returns None.
DetectSend ==
    /\ pcl_pc = "idle"
    /\ pcl_calls < MaxDetects
    /\ pcl_calls' = pcl_calls + 1
    /\ pcl_entry' = pcl_socket.state
    /\ IF pcl_socket.state = "send_ready"
       THEN /\ pcl_socket' = [pcl_socket EXCEPT !.state = "reply_pending"]
            /\ pcl_requests' = pcl_requests \cup {pcl_socket.id}
            /\ pcl_pc' = "sent"
            /\ UNCHANGED pcl_call
       ELSE /\ pcl_call' = DetectReturn("send_error", None)
            /\ UNCHANGED <<pcl_pc, pcl_socket, pcl_requests>>
    /\ UNCHANGED pcl_replies
    /\ UNCHANGED <<coreVars, reloadVars, itpVars, actVars, stopVars, loopVars, lstVars, rcvVars, natVars, tgtVars>>

\* The service answers a request it holds; the reply reaches the client
\* only when the socket that sent the request is still open.
ServiceReply ==
    /\ \E sock \in pcl_requests, kind \in ReplyKinds :
           /\ pcl_requests' = pcl_requests \ {sock}
           /\ pcl_replies' = IF sock = pcl_socket.id
                             THEN pcl_replies \cup {[sock |-> sock, kind |-> kind]}
                             ELSE pcl_replies
    /\ UNCHANGED <<pcl_pc, pcl_socket, pcl_entry, pcl_calls, pcl_call>>
    /\ UNCHANGED <<coreVars, reloadVars, itpVars, actVars, stopVars, loopVars, lstVars, rcvVars, natVars, tgtVars>>

\* detect: poll(1000) finds the reply; recv_json takes it from the socket
\* and returns result.get("data", {}), or raises on a reply it cannot parse
\* and the except clause returns None.
DetectReceive ==
    /\ pcl_pc = "sent"
    /\ \E reply \in pcl_replies :
           /\ reply.sock = pcl_socket.id
           /\ pcl_replies' = pcl_replies \ {reply}
           /\ pcl_socket' = [pcl_socket EXCEPT !.state = "send_ready"]
           /\ pcl_call' = [op |-> IF reply.kind = "json" THEN "reply" ELSE "bad_reply",
                           result |-> IF reply.kind = "json" THEN Some("data") ELSE None,
                           entry |-> pcl_entry, socket_before |-> pcl_socket.id]
    /\ pcl_pc' = "idle"
    /\ UNCHANGED <<pcl_entry, pcl_requests, pcl_calls>>
    /\ UNCHANGED <<coreVars, reloadVars, itpVars, actVars, stopVars, loopVars, lstVars, rcvVars, natVars, tgtVars>>

\* detect: poll(1000) finds nothing within the second: the socket is closed
\* and re-opened and None is returned.  Replies on their way to the closed
\* socket are lost with it.
DetectTimeout ==
    /\ pcl_pc = "sent"
    /\ \A reply \in pcl_replies : reply.sock # pcl_socket.id
    /\ pcl_socket' = ReopenSocket(pcl_socket)
    /\ pcl_call' = [op |-> "timeout", result |-> None, entry |-> pcl_entry,
                    socket_before |-> pcl_socket.id]
    /\ pcl_pc' = "idle"
    /\ UNCHANGED <<pcl_entry, pcl_requests, pcl_replies, pcl_calls>>
    /\ UNCHANGED <<coreVars, reloadVars, itpVars, actVars, stopVars, loopVars, lstVars, rcvVars, natVars, tgtVars>>

PclNext ==
    \/ DetectEncodeFails
    \/ DetectSend
    \/ ServiceReply
    \/ DetectReceive
    \/ DetectTimeout

(***************************************************************************)
(* ZMQCommandListener.run on its REP socket, with the callback             *)
(* CommandHandler._handle_external_command.  A REP socket alternates       *)
(* between receive-ready and reply-due: once a request has been taken,     *)
(* nothing further can be received until a reply has been sent.            *)
(***************************************************************************)

\* Bound on the requests clients send in a behaviour.
MaxRequests == 3

\* The bodies a client can send:
\*   track_target  {"command": "track", "target": "bottle"}
\*   track_none    {"command": "track"}
\*   stop_track    {"command": "stop_track"}
\*   unknown       {"command": "dance"}
\*   not_object    JSON that is not an object, e.g. [1, 2]
\*   not_json      a body that is not JSON
Requests == {"track_target", "track_none", "stop_track", "unknown", "not_object", "not_json"}

\* recv_json returns the parsed body, or raises after the message has been
\* taken from the socket.
Parses(msg) == msg # "not_json"

\* msg.get("command") raises on a body that is not an object.
CallbackRaises(msg) == msg = "not_object"

\* cmd_type is "track" or "stop_track"
Recognised(msg) == msg \in {"track_target", "track_none", "stop_track"}

\* response["status"] as run leaves it before send_json
Response(msg) == IF CallbackRaises(msg) THEN "error" ELSE "ok"

\* _suppress_social: get_social_state, and set_social_state(False) if on
SuppressSocial(social, suppressed) ==
    IF social THEN <<FALSE, TRUE>> ELSE <<social, suppressed>>

\* _restore_social
RestoreSocial(social, suppressed) ==
    IF suppressed THEN <<TRUE, FALSE>> ELSE <<social, suppressed>>

\* the social state after the callback
SocialAfter(msg, social, suppressed) ==
    CASE msg = "track_target" -> SuppressSocial(social, suppressed)
      [] msg \in {"track_none", "stop_track"} -> RestoreSocial(social, suppressed)
      [] OTHER -> <<social, suppressed>>

\* the orchestrator's target after the callback
TargetAfter(msg, target) ==
    CASE msg = "track_target" -> Some("bottle")
      [] msg \in {"track_none", "stop_track"} -> None
      [] OTHER -> target

LstInit ==
    /\ lst_inbox = <<>>
    /\ lst_submitted = 0
    /\ lst_socket = "recv_ready"
    /\ lst_received = 0
    /\ lst_replies = <<>>
    /\ lst_target = None
    /\ lst_social \in BOOLEAN
    /\ lst_suppressed = FALSE

LstIdle == LstInit /\ lst_social = TRUE

\* A client sends a request to port 5561.
ClientRequest ==
    /\ lst_submitted < MaxRequests
    /\ \E msg \in Requests : lst_inbox' = Append(lst_inbox, msg)
    /\ lst_submitted' = lst_submitted + 1
    /\ UNCHANGED <<lst_socket, lst_received, lst_replies, lst_target,
                   lst_social, lst_suppressed>>
    /\ UNCHANGED <<coreVars, reloadVars, itpVars, actVars, stopVars, loopVars, pclVars, rcvVars, natVars, tgtVars>>

\* One pass of the loop in which poll finds a request: recv_json, the
\* callback, send_json.  When recv_json raises, the outer except prints and
\* the pass ends with the request taken and no reply sent.
ListenerServe ==
    /\ lst_socket = "recv_ready"
    /\ lst_inbox # <<>>
    /\ LET msg == Head(lst_inbox)
           after == SocialAfter(msg, lst_social, lst_suppressed)
       IN  /\ lst_inbox' = Tail(lst_inbox)
           /\ lst_received' = lst_received + 1
           /\ IF Parses(msg)
              THEN /\ lst_replies' = Append(lst_replies,
                                        [request |-> msg, status |-> Response(msg)])
                   /\ lst_target' = TargetAfter(msg, lst_target)
                   /\ lst_social' = after[1]
                   /\ lst_suppressed' = after[2]
                   /\ UNCHANGED lst_socket
              ELSE /\ lst_socket' = "reply_due"
                   /\ UNCHANGED <<lst_replies, lst_target, lst_social, lst_suppressed>>
    /\ UNCHANGED lst_submitted
    /\ UNCHANGED <<coreVars, reloadVars, itpVars, actVars, stopVars, loopVars, pclVars, rcvVars, natVars, tgtVars>>

LstNext ==
    \/ ClientRequest
    \/ ListenerServe

(***************************************************************************)
(* The payload dispatch of the frame receivers: what VisionReceiver.run    *)
(* and VisionClient.run do with a message once the drain has chosen it.    *)
(***************************************************************************)

\* Bound on the receive passes of a behaviour.
MaxPasses == 3

\* len(img_data) of the four encodings of the streamer
GreyLen == 76800
YuyvLen == 153600
RgbLen == 230400
VgaRgbLen == 921600

\* Payload lengths tried: the four encodings, an empty payload, and lengths
\* one byte off an encoding.
PayloadLengths ==
    {GreyLen, YuyvLen, RgbLen, VgaRgbLen, 0, GreyLen + 1, RgbLen - 1}

\* len(msg): the parts of the multipart message
MsgParts == 1..4

NoPass == [op |-> "init", parts |-> 0, length |-> 0, decoded |-> None, delivered |-> FALSE]

\* VisionReceiver.run: the protocol check, [topic, header, data] or [topic, data]
ReceiverAcceptsParts(parts) == parts \in {2, 3}

\* VisionReceiver.run, Decode: img_bgr by len(img_data), None for the else branch
ReceiverDecode(length) ==
    CASE length = GreyLen -> Some("GRAY2BGR")
      [] length = YuyvLen -> Some("YUV2BGR_YUYV")
      [] OTHER -> None

\* VisionClient.run: topic, img_data = msg raises unless there are two parts
ClientAcceptsParts(parts) == parts = 2

\* VisionClient.run: (w, h) by len(img_data), None for "Unknown image size"
ClientDecode(length) ==
    CASE length = RgbLen -> Some(<<320, 240>>)
      [] length = VgaRgbLen -> Some(<<640, 480>>)
      [] OTHER -> None

RcvInit ==
    /\ rcv_passes = 0
    /\ rcv_callbacks = 0
    /\ rcv_call = NoPass

\* VisionReceiver.run: one pass with a message: protocol, decode, and the
\* callback when img_bgr is not None.
ReceiverPass ==
    /\ rcv_passes < MaxPasses
    /\ rcv_passes' = rcv_passes + 1
    /\ \E parts \in MsgParts, length \in PayloadLengths :
           LET img_bgr == IF ReceiverAcceptsParts(parts)
                          THEN ReceiverDecode(length) ELSE None
           IN  /\ rcv_call' = [op |-> "receiver", parts |-> parts, length |-> length,
                               decoded |-> img_bgr, delivered |-> img_bgr # None]
               /\ rcv_callbacks' = IF img_bgr # None THEN rcv_callbacks + 1
                                   ELSE rcv_callbacks
    /\ UNCHANGED <<coreVars, reloadVars, itpVars, actVars, stopVars, loopVars, pclVars, lstVars, natVars, tgtVars>>

\* VisionClient.run: one pass with a message.  The frame is used inside the
\* loop (perception request and head servo); no callback is invoked.
ClientPass ==
    /\ rcv_passes < MaxPasses
    /\ rcv_passes' = rcv_passes + 1
    /\ \E parts \in MsgParts, length \in PayloadLengths :
           rcv_call' = [op |-> "client", parts |-> parts, length |-> length,
                        decoded |-> IF ClientAcceptsParts(parts)
                                    THEN ClientDecode(length) ELSE None,
                        delivered |-> FALSE]
    /\ UNCHANGED rcv_callbacks
    /\ UNCHANGED <<coreVars, reloadVars, itpVars, actVars, stopVars, loopVars, pclVars, lstVars, natVars, tgtVars>>

RcvNext ==
    \/ ReceiverPass
    \/ ClientPass

(***************************************************************************)
(* NativeController.update on its own: the controller starts in any state  *)
(* that earlier ticks can have left it in (both smoothed targets set, each *)
(* scheduler with a velocity within max_v), and every tick is an update    *)
(* with or without a measurement.                                          *)
(***************************************************************************)

\* Bound on the updates of a behaviour.
MaxNatTicks == 2

\* Smoothed targets and scheduler velocities the controller starts with.
NatTargets == 0..1

NatVelocities == (0 - max_v)..max_v

\* NativeController.__init__: smoothers without a value, schedulers at rest
NatFresh ==
    [smoother_yaw |-> None, smoother_pitch |-> None,
     scheduler_yaw |-> SchedulerReset, scheduler_pitch |-> SchedulerReset]

\* The controller once a measured tick has been through it.
NatTracking ==
    {[smoother_yaw |-> Some(ty), smoother_pitch |-> Some(tp),
      scheduler_yaw |-> [curr_v |-> vy, last_cmd |-> Some(0)],
      scheduler_pitch |-> [curr_v |-> vp, last_cmd |-> Some(0)]] :
        ty \in NatTargets, tp \in NatTargets,
        vy \in NatVelocities, vp \in NatVelocities}

NoNatCall == [op |-> "init", dt |-> 0, measured |-> FALSE, before |-> NatFresh]

\* error_x, error_y of a tick: None without a Detection
NatErrors == {None, Some(<<1, 1>>)}

\* dt as HeadTracker.update hands it over, after its safety clamp
NatDts == {SafetyClamp(raw_dt) : raw_dt \in RawDts}

NatInit ==
    /\ nat_ctrl \in {NatFresh} \cup NatTracking
    /\ nat_ticks = 0
    /\ nat_call = NoNatCall

NatIdle ==
    /\ nat_ctrl = NatFresh
    /\ nat_ticks = 0
    /\ nat_call = NoNatCall

\* NativeController.update(error_x, error_y, current_yaw, current_pitch, dt)
NatUpdate ==
    /\ nat_ticks < MaxNatTicks
    /\ nat_ticks' = nat_ticks + 1
    /\ \E error \in NatErrors, current \in RobotStates, dt \in NatDts :
           LET out == NativeUpdate(nat_ctrl.smoother_yaw, nat_ctrl.smoother_pitch,
                                   nat_ctrl.scheduler_yaw, nat_ctrl.scheduler_pitch,
                                   error, current, dt)
           IN  /\ nat_ctrl' = [smoother_yaw |-> out.smoother_yaw,
                               smoother_pitch |-> out.smoother_pitch,
                               scheduler_yaw |-> out.scheduler_yaw,
                               scheduler_pitch |-> out.scheduler_pitch]
               /\ nat_call' = [op |-> "update", dt |-> dt,
                               measured |-> (error # None /\ current # None),
                               before |-> nat_ctrl]
    /\ UNCHANGED <<coreVars, reloadVars, itpVars, actVars, stopVars, loopVars, pclVars, lstVars, rcvVars, tgtVars>>

NatNext == NatUpdate

(***************************************************************************)
(* A change of target: set_target on the operator's thread, the vision     *)
(* callback on the receiver's thread and the tick of the control thread,   *)
(* with the label each Detection was requested for.  on_frame_received     *)
(* reads active_target_label three times without the lock: for its guard,  *)
(* for perception.detect and for interpreter.interpret.  Time is not       *)
(* modelled here: a tick may take a timeout branch or go on to the update. *)
(***************************************************************************)

\* Bound on the calls of set_target in a behaviour.
MaxTargetChanges == 3

TrackedLabels == {"person", "bottle"}

\* PerceptionInterpreter.interpret: the Detection carries the label it was
\* handed; requested is the target_label perception.detect was called with.
LabelledDetection(label, requested) == [label |-> label, requested |-> requested]

NoTgtTick == [label |-> None, detection |-> None]

NoTgtCall == [op |-> "init", label |-> None, detection |-> None]

TgtInit ==
    /\ tgt_label = None
    /\ tgt_changes = 0
    /\ tgt_vis_pc = "idle"
    /\ tgt_request = None
    /\ tgt_box = None
    /\ tgt_ctl_pc = "check"
    /\ tgt_tick = NoTgtTick
    /\ tgt_call = NoTgtCall

\* set_target(label): self.active_target_label = label; self.tracker.reset()
TgtSetTarget ==
    /\ tgt_changes < MaxTargetChanges
    /\ tgt_changes' = tgt_changes + 1
    /\ \E label \in {None} \cup {Some(l) : l \in TrackedLabels} :
           tgt_label' = label
    /\ tgt_call' = [op |-> "reset", label |-> None, detection |-> None]
    /\ UNCHANGED <<tgt_vis_pc, tgt_request, tgt_box, tgt_ctl_pc, tgt_tick>>
    /\ UNCHANGED <<coreVars, reloadVars, itpVars, actVars, stopVars, loopVars, pclVars, lstVars, rcvVars, natVars>>

\* on_frame_received: if not self.running or not self.active_target_label: return
TgtCallbackGuard ==
    /\ tgt_vis_pc = "idle"
    /\ tgt_vis_pc' = IF tgt_label = None THEN "idle" ELSE "request"
    /\ UNCHANGED <<tgt_label, tgt_changes, tgt_request, tgt_box, tgt_ctl_pc, tgt_tick, tgt_call>>
    /\ UNCHANGED <<coreVars, reloadVars, itpVars, actVars, stopVars, loopVars, pclVars, lstVars, rcvVars, natVars>>

\* on_frame_received: self.perception.detect(img_bgr,
\* target_label=self.active_target_label) is called and blocks.
TgtCallbackRequest ==
    /\ tgt_vis_pc = "request"
    /\ tgt_vis_pc' = "detect"
    /\ tgt_request' = tgt_label
    /\ UNCHANGED <<tgt_label, tgt_changes, tgt_box, tgt_ctl_pc, tgt_tick, tgt_call>>
    /\ UNCHANGED <<coreVars, reloadVars, itpVars, actVars, stopVars, loopVars, pclVars, lstVars, rcvVars, natVars>>

\* on_frame_received: detect returns, interpret is handed the label as it is
\* now (None: no Detection) and an accepted Detection goes into the mailbox
\* under the lock.
TgtCallbackWrite ==
    /\ tgt_vis_pc = "detect"
    /\ tgt_vis_pc' = "idle"
    /\ tgt_request' = None
    /\ \E accepted \in BOOLEAN :
           tgt_box' = IF accepted /\ tgt_label # None
                      THEN Some(LabelledDetection(tgt_label[1], tgt_request))
                      ELSE tgt_box
    /\ UNCHANGED <<tgt_label, tgt_changes, tgt_ctl_pc, tgt_tick, tgt_call>>
    /\ UNCHANGED <<coreVars, reloadVars, itpVars, actVars, stopVars, loopVars, pclVars, lstVars, rcvVars, natVars>>

\* _control_loop, top of a tick: if self.active_target_label, the mailbox is
\* consumed under the lock.
TgtTickConsume ==
    /\ tgt_ctl_pc = "check"
    /\ IF tgt_label = None
       THEN UNCHANGED <<tgt_ctl_pc, tgt_tick, tgt_box>>
       ELSE /\ tgt_ctl_pc' = "decide"
            /\ tgt_tick' = [label |-> tgt_label, detection |-> tgt_box]
            /\ tgt_box' = None
    /\ UNCHANGED <<tgt_label, tgt_changes, tgt_vis_pc, tgt_request, tgt_call>>
    /\ UNCHANGED <<coreVars, reloadVars, itpVars, actVars, stopVars, loopVars, pclVars, lstVars, rcvVars, natVars>>

\* _control_loop, a timeout branch: the tick ends without tracker.update.
TgtTickTimeout ==
    /\ tgt_ctl_pc = "decide"
    /\ tgt_ctl_pc' = "check"
    /\ tgt_tick' = NoTgtTick
    /\ UNCHANGED <<tgt_label, tgt_changes, tgt_vis_pc, tgt_request, tgt_box, tgt_call>>
    /\ UNCHANGED <<coreVars, reloadVars, itpVars, actVars, stopVars, loopVars, pclVars, lstVars, rcvVars, natVars>>

\* _control_loop: self.tracker.update(detection, robot_state)
TgtTickUpdate ==
    /\ tgt_ctl_pc = "decide"
    /\ tgt_ctl_pc' = "check"
    /\ tgt_call' = [op |-> "update", label |-> tgt_tick.label,
                    detection |-> tgt_tick.detection]
    /\ tgt_tick' = NoTgtTick
    /\ UNCHANGED <<tgt_label, tgt_changes, tgt_vis_pc, tgt_request, tgt_box>>
    /\ UNCHANGED <<coreVars, reloadVars, itpVars, actVars, stopVars, loopVars, pclVars, lstVars, rcvVars, natVars>>

TgtNext ==
    \/ TgtSetTarget
    \/ TgtCallbackGuard
    \/ TgtCallbackRequest
    \/ TgtCallbackWrite
    \/ TgtTickConsume
    \/ TgtTickTimeout
    \/ TgtTickUpdate

(***************************************************************************)
(* Specifications.                                                         *)
(***************************************************************************)
\* The components specified on their own, as constructed with the shipped
\* tuning.json (stiffness and gain at their first values).
ReloadIdle ==
    /\ ReloadInit
    /\ tuning_file = [stiffness |-> Some(DefaultStiffness), native |-> Some(KpNum)]

\* The interpreter before any payload: interpret(None, None, ...).
ItpIdle ==
    /\ ItpInit
    /\ itp_raw_data = [kind |-> "null", pose |-> None, dets |-> None]
    /\ itp_target_label = None
    /\ itp_source_angles = None

\* The control thread's loop with the default target_lost_timeout.
LoopIdle == LoopInit /\ loop_lost_timeout = TargetLostTimeout

ExtInit == ReloadIdle /\ ItpIdle /\ ActInit /\ StopInit /\ LoopIdle /\ PclInit /\ LstIdle /\ RcvInit /\ NatIdle /\ TgtInit

\* The TrackingOrchestrator with its threads: the default specification.
Init == BufInit /\ TrkInit /\ OrchInit /\ ExtInit

Spec == Init /\ [][Next]_vars

\* The StateBuffer alone, under every sequence of joint records and lookups.
InitBuffer == BufInit /\ TrkInit /\ OrchInit /\ ExtInit /\ control_mode = "native"

SpecBuffer == InitBuffer /\ [][BufNext]_vars

\* The HeadTracker alone, under every sequence of updates and resets.
InitTracker == BufInit /\ TrkInit /\ OrchInit /\ ExtInit

SpecTracker == InitTracker /\ [][TrkNext]_vars

\* The tuning configuration alone, under every tuning.json and every edit.
InitReload ==
    /\ BufInit /\ TrkInit /\ OrchInit /\ control_mode = "native"
    /\ ReloadInit /\ ItpIdle /\ ActInit /\ StopInit /\ LoopIdle /\ PclInit /\ LstIdle /\ RcvInit /\ NatIdle /\ TgtInit

SpecReload == InitReload /\ [][ReloadNext]_vars

\* PerceptionInterpreter.interpret alone, on every payload and target label.
InitInterpreter ==
    /\ BufInit /\ TrkInit /\ OrchInit /\ control_mode = "native"
    /\ ReloadIdle /\ ItpInit /\ ActInit /\ StopInit /\ LoopIdle /\ PclInit /\ LstIdle /\ RcvInit /\ NatIdle /\ TgtInit

SpecInterpreter == InitInterpreter /\ [][ItpNext]_vars

\* The RobotActuator with its two writers, under every interleaving.
InitActuator == BufInit /\ TrkInit /\ OrchInit /\ ExtInit /\ control_mode = "native"

SpecActuator == InitActuator /\ [][ActNext]_vars

\* The shutdown, under every interleaving of cleanup, stop and the threads.
InitShutdown == BufInit /\ TrkInit /\ OrchInit /\ ExtInit /\ control_mode = "native"

SpecShutdown == InitShutdown /\ [][StopNext]_vars

\* The control thread's loop alone, under every timing of frames and ticks.
InitLoop ==
    /\ BufInit /\ TrkInit /\ OrchInit /\ control_mode = "native"
    /\ ReloadIdle /\ ItpIdle /\ ActInit /\ StopInit /\ LoopInit /\ PclInit /\ LstIdle /\ RcvInit /\ NatIdle /\ TgtInit

SpecLoop == InitLoop /\ [][LoopNext]_vars

\* The control thread scheduled: a thread that can take a step of its loop
\* takes it.  Nothing is assumed of the clock, the callers of set_target and
\* stop and the vision callback, nor of a call that may raise.
LoopFairness ==
    /\ WF_vars(LoopExit)
    /\ WF_vars(TickIdle)
    /\ WF_vars(TickLost)
    /\ WF_vars(TickHardTimeout)
    /\ WF_vars(TickUpdate)
    /\ WF_vars(LoopSleep)

SpecLoopFair == InitLoop /\ [][LoopNext]_vars /\ LoopFairness

\* PerceptionClient.detect alone, under every behaviour of the service.
InitPerception == BufInit /\ TrkInit /\ OrchInit /\ ExtInit /\ control_mode = "native"

SpecPerception == InitPerception /\ [][PclNext]_vars

\* The command listener alone, under every sequence of requests.
InitListener ==
    /\ BufInit /\ TrkInit /\ OrchInit /\ control_mode = "native"
    /\ ReloadIdle /\ ItpIdle /\ ActInit /\ StopInit /\ LoopIdle /\ PclInit /\ LstInit /\ RcvInit /\ NatIdle /\ TgtInit

SpecListener == InitListener /\ [][LstNext]_vars

\* The payload dispatch alone, over every message.
InitReceiver == BufInit /\ TrkInit /\ OrchInit /\ ExtInit /\ control_mode = "native"

SpecReceiver == InitReceiver /\ [][RcvNext]_vars

\* NativeController.update alone, from every state the controller can be in.
InitNative ==
    /\ BufInit /\ TrkInit /\ OrchInit /\ control_mode = "native"
    /\ ReloadIdle /\ ItpIdle /\ ActInit /\ StopInit /\ LoopIdle /\ PclInit /\ LstIdle /\ RcvInit
    /\ TgtInit /\ NatInit

SpecNative == InitNative /\ [][NatNext]_vars

\* A change of target alone, over every interleaving of set_target, the
\* vision callback and the control thread.
InitTarget == BufInit /\ TrkInit /\ OrchInit /\ ExtInit /\ control_mode = "native"

SpecTarget == InitTarget /\ [][TgtNext]_vars

(***************************************************************************)
(* Claims about the TrackingOrchestrator, under Spec.                      *)
(***************************************************************************)
ConsumedIds == {consumed[i].id : i \in 1..Len(consumed)}

\* The control thread stands between its consume and the rest of its tick.
JustConsumed == ctl_pc = "decide"

\* C1: the mailbox holds the Detection written last: when the callback has
\* written several Detections since the last consume, the tick consumes the
\* last one written, and a Detection a later write found in the mailbox is
\* never consumed and never handed to tracker.update.
C1_MailboxFreshness ==
    /\ last_detection # None => last_detection[1].id = last_written
    /\ (last_written # 0 /\ last_written \notin ConsumedIds) =>
            last_detection # None
    /\ ConsumedIds \cap overwritten = {}
    /\ ctl_detection # None =>
            /\ ctl_detection[1].id \notin overwritten
            /\ Consumed(ctl_detection[1]) = consumed[Len(consumed)]

\* C1 witness: three Detections were written between two ticks and the tick
\* has consumed the third, which it is about to hand to tracker.update.
C1_Witness ==
    /\ JustConsumed
    /\ overwritten = {1, 2}
    /\ ctl_detection # None
    /\ ctl_detection[1].id = 3
    /\ ConsumedIds = {3}

\* C2: a consume empties the mailbox, so that a tick which consumes with no
\* write since the previous consume gets None, and no Detection is consumed
\* twice, whatever the interleaving of the callback and the control thread.
C2_DestructiveRead ==
    /\ \A i, j \in 1..Len(consumed) : i # j => consumed[i].id # consumed[j].id
    /\ (last_written # 0 /\ last_written \in ConsumedIds) => last_detection = None
    /\ (JustConsumed /\ ctl_detection # None) => last_written # 0
    /\ (JustConsumed /\ ctl_detection # None /\ last_detection # None) =>
            last_detection[1].id # ctl_detection[1].id

\* C2 witness: a tick consumed a Detection, and a later tick, with no write in
\* between, has consumed again and got None.
C2_Witness ==
    /\ JustConsumed
    /\ ctl_detection = None
    /\ last_written # 0
    /\ last_written \in ConsumedIds
    /\ last_detection = None

C4_NoCommandAfterClear ==
    [][active_target_label = None => ctl_writes' = ctl_writes]_vars

(***************************************************************************)
(* Claims about the StateBuffer, under SpecBuffer.                         *)
(***************************************************************************)
Pending == q_res.kind # "idle"

t_oldest == buffer[1].ts

t_newest == buffer[Len(buffer)].ts

OutOfOrder == \E i \in 1..(Len(buffer) - 1) : buffer[i].ts > buffer[i + 1].ts

\* num/den lies between a and b.
Between(num, den, a, b) == Min(a, b) * den <= num /\ num <= Max(a, b) * den

\* res is a value that lies, on both axes, between two neighbouring stored
\* samples whose timestamps bracket t (one sample, when t is its timestamp).
WithinBracket(buf, t, res) ==
    /\ res.kind = "value"
    /\ \E i \in 1..Len(buf) : \E j \in {i, i + 1} \cap (1..Len(buf)) :
          /\ buf[i].ts <= t /\ t <= buf[j].ts
          /\ Between(res.yn, res.den, buf[i].yaw, buf[j].yaw)
          /\ Between(res.pn, res.den, buf[i].pitch, buf[j].pitch)

\* C7: the timestamps held in the ring are non-decreasing after any sequence
\* of received joint records (a record older than the newest one is dropped).
C7_TimestampsMonotonic ==
    \A i \in 1..(Len(buffer) - 1) : buffer[i].ts <= buffer[i + 1].ts

\* C8: for every query time t with t_oldest <= t <= t_newest, get_state_at(t)
\* returns, per axis, a value between the values of two stored samples that
\* bracket t, whatever ring content the receiver has produced.
C8_InterpolationWithinBracket ==
    (Pending /\ buffer # <<>> /\ t_oldest <= q_time /\ q_time <= t_newest)
        => WithinBracket(buffer, q_time, q_res)

\* C8 witness: a lookup strictly inside a bracket of a ring that holds its
\* records out of order, answered with a properly interpolated value.
C8_Witness ==
    /\ Pending /\ buffer # <<>> /\ OutOfOrder
    /\ t_oldest < q_time /\ q_time < t_newest
    /\ q_res.kind = "value" /\ q_res.den > 1
    /\ \A i \in 1..Len(buffer) : q_res.yn # buffer[i].yaw * q_res.den

\* C9: get_state_at returns None when the ring is empty or when
\* query_t < t_oldest - 50 ms, and the latest sample for every
\* query_t >= t_newest (at t_newest + 50 ms and beyond it).
C9_LookupBoundaries ==
    Pending =>
        /\ buffer = <<>> => q_res = NoneResult
        /\ (buffer # <<>> /\ q_time < t_oldest - Slack) => q_res = NoneResult
        /\ (buffer # <<>> /\ q_time >= t_oldest - Slack /\ q_time >= t_newest)
              => q_res = SampleValue(buffer[Len(buffer)])

(***************************************************************************)
(* Claims about the HeadTracker and its controllers, under SpecTracker.    *)
(***************************************************************************)
Updated == trk_call.op = "update"

\* The step is a tracker update.
UpdateStep == trk_call'.op = "update"

\* Both position commands of the step differ, per axis, by at most
\* max_velocity * dt.
CommandStepWithin(dt) ==
    /\ Abs(issued'.yaw - issued.yaw) <= max_v * dt
    /\ Abs(issued'.pitch - issued.pitch) <= max_v * dt

\* C5 as claimed: any two position commands the control thread issues one
\* after the other differ per axis by at most max_velocity * dt_k, also when
\* a tracker reset or the recenter command falls between them (a tick that
\* recenters counts with the largest dt the tracker accepts).
C5_CommandStepBounded ==
    [][(issued.type = "position" /\ issued'.type = "position")
          => CommandStepWithin(IF UpdateStep THEN trk_call'.dt ELSE SafetyMaxDt)]_vars

\* C5 amended: two position commands issued by consecutive tracker updates
\* with no reset of the scheduler between them differ per axis by at most
\* max_velocity * dt_k.
C5_CommandStepBoundedNoReset ==
    [][(UpdateStep /\ issued.type = "position" /\ issued'.type = "position"
          /\ scheduler_yaw.last_cmd # None /\ scheduler_pitch.last_cmd # None)
          => CommandStepWithin(trk_call'.dt)]_vars

\* C5 witness: an update has moved the yaw command at the velocity limit.
C5_Witness ==
    /\ Updated /\ control_mode = "native" /\ issued.type = "position"
    /\ Abs(scheduler_yaw.curr_v) = max_v
    /\ issued.yaw = scheduler_yaw.last_cmd[1]

\* C6: across every scheduler update the velocity changes by at most
\* max_accel * dt_k, and the velocity stays within +-max_velocity after any
\* sequence of updates and resets.
C6_VelocitySlewBounded ==
    /\ [](Abs(scheduler_yaw.curr_v) <= max_v /\ Abs(scheduler_pitch.curr_v) <= max_v)
    /\ [][UpdateStep =>
            /\ Abs(scheduler_yaw'.curr_v - scheduler_yaw.curr_v) <= max_a * trk_call'.dt
            /\ Abs(scheduler_pitch'.curr_v - scheduler_pitch.curr_v) <= max_a * trk_call'.dt]_vars

\* C6 witness: the scheduler has been driven up to the velocity limit and a
\* further update has kept it there.
C6_Witness ==
    /\ Updated /\ control_mode = "native"
    /\ scheduler_yaw.last_cmd # None
    /\ scheduler_yaw.curr_v = 0 - max_v

\* The update's axis error e was taken as the value v: in native mode the
\* (unsmoothed) target is current + v * fov/2, in PID mode prev_error is v.
YawErrorTakenAs(v) ==
    IF control_mode = "native"
    THEN smoother_yaw = Some(trk_call.current[1][1] + v * FovHalfX)
    ELSE pid_yaw.prev_error = v

PitchErrorTakenAs(v) ==
    IF control_mode = "native"
    THEN smoother_pitch = Some(trk_call.current[1][2] + v * FovHalfY)
    ELSE pid_pitch.prev_error = v

YawDeadzone == IF control_mode = "native" THEN deadzone_x ELSE PidDeadzoneYaw

PitchDeadzone == IF control_mode = "native" THEN deadzone_y ELSE PidDeadzonePitch

\* C10 as claimed: an axis error whose magnitude equals the deadzone
\* threshold is treated as 0, in the position and in the PID controller.
C10_ThresholdTreatedAsZero ==
    (Updated /\ trk_call.measured) =>
        /\ Abs(trk_call.err[1]) = YawDeadzone => YawErrorTakenAs(0)
        /\ Abs(trk_call.err[2]) = PitchDeadzone => PitchErrorTakenAs(0)

\* C10 amended: an axis error whose magnitude is strictly below the deadzone
\* threshold is treated as 0; one at the threshold or above it is used as it
\* is (in the position and in the PID controller).
C10_DeadzoneStrict ==
    (Updated /\ trk_call.measured) =>
        /\ YawErrorTakenAs(IF Abs(trk_call.err[1]) < YawDeadzone THEN 0 ELSE trk_call.err[1])
        /\ PitchErrorTakenAs(IF Abs(trk_call.err[2]) < PitchDeadzone THEN 0 ELSE trk_call.err[2])

\* C10 witness: a PID update with the yaw error exactly at the threshold,
\* which the controller kept as its error.
C10_Witness ==
    /\ Updated /\ trk_call.measured /\ control_mode = "pid"
    /\ Abs(trk_call.err[1]) = PidDeadzoneYaw /\ PidDeadzoneYaw > 0
    /\ pid_yaw.prev_error = trk_call.err[1]

\* C11 as claimed: the dt a tracker update works with is the raw dt clamped
\* into [min_dt, max_dt]: above max_dt it is max_dt, below min_dt it is
\* min_dt, and at either end it is the raw dt.
C11_DtClampedIntoRange ==
    Updated => trk_call.dt = Min(Max(trk_call.raw_dt, SafetyMinDt), SafetyMaxDt)

\* C12 as claimed: from the tick that finds the target lost, which resets the
\* tracker and sends the one recenter command Position(0, 0), until a tick
\* consumes a Detection again (the target-lost flag stands all that while),
\* the control thread performs no tracker update and sends no further
\* command: the recenter command stays the last command sent and the reset
\* the last call made on the tracker.
C12_LostUntilDetectionConsumed ==
    target_lost_active =>
        /\ trk_call.op # "update"
        /\ issued = Position(0, 0)

(***************************************************************************)
(* Claims about the tuning configuration, under SpecReload.                *)
(***************************************************************************)
\* C13 as claimed: a hot reload of a tuning.json that has not changed since
\* it was last loaded leaves the configuration as it was and sends no
\* stiffness call, and a hot reload sends a stiffness call only when the
\* stiffness differs from the one last applied, the one applied by start
\* included.
C13_UnchangedReloadIsSilent ==
    rel_call.op = "reload" =>
        /\ rel_call.unchanged => (config = rel_call.config_before /\ ~rel_call.sent)
        /\ rel_call.sent => rel_call.applied # Some(rel_call.val)

\* C22: a hot reload whose load fails (a missing, unreadable or malformed
\* tuning.json, for which _load_tuning_config returns the empty dict)
\* leaves the configuration as it was and sends no stiffness call.
C22_FailedReloadKeepsConfig ==
    (rel_call.op = "reload" /\ loaded_file = EmptyConfig) =>
        /\ config = rel_call.config_before
        /\ ~rel_call.sent
        /\ applied_stiffness = rel_call.applied

\* A failed reload of a configuration that had entries, right after start.
C22_Witness ==
    /\ rel_call.op = "reload"
    /\ loaded_file = EmptyConfig
    /\ config # EmptyConfig
    /\ config = rel_call.config_before
    /\ last_stiff = None
    /\ applied_stiffness # None

\* C23: a reload publishes a new snapshot: a reference to the configuration
\* taken before the reload still reads the values from before it, and the
\* configuration after the reload is exactly the content of the file.
C23_ReloadPublishesSnapshot ==
    (rel_call.op = "reload" /\ loaded_file # EmptyConfig) =>
        /\ TrackerConfig = rel_call.config_before
        /\ config = loaded_file

(***************************************************************************)
(* Claims about PerceptionInterpreter.interpret, under SpecInterpreter.     *)
(***************************************************************************)
\* interpret has returned on the inputs.
ItpCalled == itp_calls > 0

\* The Detection the last call returned, when it is not None.
ItpDetection == itp_last.detection[1]

\* The target label denotes a human, compared without regard to case.
ItpHuman ==
    /\ itp_target_label # None
    /\ Lower(itp_target_label[1]) \in HumanLabels

\* The payload carries a non-empty pose_landmarks list.
ItpLandmarks ==
    /\ itp_raw_data.kind = "dict"
    /\ itp_raw_data.pose # None
    /\ itp_raw_data.pose[1] # <<>>

ItpRecords == DetectionsList(itp_raw_data)

\* The records of the target's class above the confidence floor, and the
\* most confident of them.
ItpQualifying ==
    {i \in DOMAIN ItpRecords :
        /\ itp_target_label = Some(ItpRecords[i].class)
        /\ ItpRecords[i].confidence > ConfidenceFloor}

ItpBest ==
    {i \in ItpQualifying :
        \A j \in ItpQualifying : ItpRecords[j].confidence <= ItpRecords[i].confidence}

\* BBox.center, doubled.
Center2(bbox) == <<bbox[1] + bbox[3], bbox[2] + bbox[4]>>

\* C14: when the box fallback selects a box for a human target label, the
\* Detection keeps xmin, xmax and ymin of the selected box and has
\* ymax = ymin + 0.4 * (ymax - ymin), so that its centre y is
\* ymin + 0.2 * (ymax - ymin).
C14_SocialBias ==
    (ItpCalled /\ ItpHuman /\ ~ItpLandmarks /\ itp_last.detection # None) =>
        \E i \in ItpBest :
            LET box == ItpRecords[i].bbox
                out == ItpDetection.bbox
            IN  /\ out[1] = box[1]
                /\ out[3] = box[3]
                /\ out[2] = box[2]
                /\ BiasDen * out[4] = BiasDen * box[2] + BiasNum * (box[4] - box[2])
                /\ BiasDen * Center2(out)[2]
                       = 2 * BiasDen * box[2] + BiasNum * (box[4] - box[2])

\* The person box [100, 100, 200, 300] came out with ymax 180 and centre y 140.
C14_Witness ==
    /\ ItpCalled
    /\ itp_target_label = Some("person")
    /\ ~ItpLandmarks
    /\ ItpRecords # <<>>
    /\ ItpRecords[1].bbox = <<100, 100, 200, 300>>
    /\ itp_last.detection # None
    /\ ItpDetection.bbox = <<100, 100, 200, 180>>
    /\ Center2(ItpDetection.bbox)[2] = 2 * 140

\* C15: for a human target label, in any letter case, and a payload with a
\* non-empty pose_landmarks list, interpret returns the point Detection at
\* (x0 * W, y0 * H) of landmark 0 with confidence 1.0, whatever the
\* detection list holds.
C15_LandmarkPrimacy ==
    (ItpCalled /\ ItpHuman /\ ItpLandmarks) =>
        LET nose == itp_raw_data.pose[1][1]
            nx == (nose[1] * ItpWidth) \div LandmarkDen
            ny == (nose[2] * ItpHeight) \div LandmarkDen
        IN  /\ itp_last.detection # None
            /\ ItpDetection.bbox = <<nx, ny, nx, ny>>
            /\ ItpDetection.confidence = LandmarkConfidence
            /\ ItpDetection.label = itp_target_label[1]

\* A label in capitals, landmarks, and a detection list with a qualifying
\* record of a person: the point of the landmark came out.
C15_Witness ==
    /\ ItpCalled
    /\ itp_target_label = Some("Person")
    /\ ItpLandmarks
    /\ \E i \in DOMAIN ItpRecords :
           /\ ItpRecords[i].class = "person"
           /\ ItpRecords[i].confidence > ConfidenceFloor
    /\ itp_last.detection # None
    /\ ItpDetection.confidence = LandmarkConfidence

\* C16: when the landmark rule does not apply, interpret returns the
\* Detection of a record of the highest confidence among those whose class
\* equals the target label and whose confidence exceeds the floor, with the
\* bbox unchanged for a non-human target, and None when no record
\* qualifies; the target label is any label, human in any letter case
\* included.
C16_BoxFallback ==
    (ItpCalled /\ ~(ItpHuman /\ ItpLandmarks)) =>
        IF ItpQualifying = {}
        THEN itp_last.detection = None
        ELSE /\ itp_last.detection # None
             /\ \E i \in ItpBest :
                    /\ ItpDetection.label = ItpRecords[i].class
                    /\ ItpDetection.confidence = ItpRecords[i].confidence
                    /\ ~ItpHuman => ItpDetection.bbox = ItpRecords[i].bbox
                    /\ ItpDetection.timestamp = 1
                    /\ ItpDetection.source_angles = itp_source_angles

\* Two cups of different confidence, the second the more confident and in
\* another box: the second came out, with its box.
C16_Witness ==
    /\ ItpCalled
    /\ itp_target_label = Some("cup")
    /\ Len(ItpRecords) = 2
    /\ ItpQualifying = {1, 2}
    /\ ItpRecords[1].confidence < ItpRecords[2].confidence
    /\ ItpRecords[1].bbox # ItpRecords[2].bbox
    /\ itp_last.detection # None
    /\ ItpDetection.bbox = ItpRecords[2].bbox

\* The payload is None, an empty list or an empty dict.
ItpEmptyPayload ==
    \/ itp_raw_data.kind = "null"
    \/ itp_raw_data.kind = "list" /\ itp_raw_data.dets = Some(<<>>)
    \/ itp_raw_data.kind = "dict" /\ itp_raw_data.dets = None /\ itp_raw_data.pose = None

C18_MailboxHoldsWrittenCommand ==
    wr_ret.op = "send" => wr_ret.mailbox = <<wr_ret.cmd>>

\* C19: at the moment of each set_angles call, no command written later
\* than the one being sent is in the mailbox.
C19_NoStaleForward ==
    act_sent.op = "set_angles" =>
        \A i \in DOMAIN act_sent.mailbox : act_sent.mailbox[i].id < act_sent.cmd.id

(***************************************************************************)
(* Claims about the shutdown, under SpecShutdown.                          *)
(***************************************************************************)
\* The component has stopped: its thread has left its loop, or its socket
\* is closed.
Stopped(c) ==
    IF c = "perception" THEN ~perception_open ELSE thread_pc[c] = "exited"

\* C20: the components stop in the order listener, Frame Receiver, State
\* Buffer receiver, Perception Client socket, Actuator, control thread: no
\* component later in the order has stopped while an earlier one has not.
C20_StoppedInOrder ==
    \A i, j \in DOMAIN StopOrder :
        (i < j /\ Stopped(StopOrder[j])) => Stopped(StopOrder[i])

(***************************************************************************)
(* Claims about the control thread's loop, under SpecLoop.                 *)
(***************************************************************************)
\* C21: on every tick with an active target whose last measurement is more
\* than 1.0 s old, the control thread writes Velocity{0, 0} and does not
\* call tracker.update, whatever target_lost_timeout is configured.
C21_HardTimeoutStopsHead ==
    (loop_call.op = "tick" /\ loop_call.branch # "idle"
        /\ loop_call.measured /\ loop_call.elapsed > HardTimeout) =>
        /\ loop_call.command = Velocity(0, 0)
        /\ ~loop_call.updated

\* C28: while the running flag is set the control thread has not ended: no
\* failure raised inside a tick terminates it.
C28_ControlThreadSurvives ==
    loop_running => loop_pc \notin {"dead", "exited"}

\* C29: the thread is at the top of an iteration only after it has passed
\* the rate-keeping sleep since the tick before began.
C29_EveryIterationSleeps ==
    loop_pc = "while" => loop_slept

(***************************************************************************)
(* Claims about PerceptionClient.detect, under SpecPerception.             *)
(***************************************************************************)
\* C24: a detect call that gets no reply within the timeout closes and
\* re-opens the socket and returns None, and every detect call, after any
\* sequence of replies, timeouts and errors, finds the socket send-ready,
\* never with a reply pending.
C24_SocketSendReadyAtDetect ==
    /\ pcl_pc = "idle" => pcl_socket.state = "send_ready"
    /\ pcl_call.op # "init" => pcl_call.entry = "send_ready"
    /\ pcl_pc = "sent" => pcl_entry = "send_ready"
    /\ pcl_call.op = "timeout" =>
           /\ pcl_call.result = None
           /\ pcl_socket.id > pcl_call.socket_before

\* A call answered on the socket that a timeout of an earlier call opened.
C24_Witness ==
    /\ pcl_call.op = "reply"
    /\ pcl_call.result # None
    /\ pcl_call.socket_before > 1
    /\ pcl_call.entry = "send_ready"

(***************************************************************************)
(* Claims about the external command channel, under SpecListener.          *)
(***************************************************************************)
\* C25: every request the listener receives, a body that is not valid JSON
\* included, is answered with exactly one reply before the next request is
\* received, and the listener remains able to serve requests.
C25_EveryRequestAnswered ==
    /\ Len(lst_replies) = lst_received
    /\ lst_socket = "recv_ready"

\* C26: a reply has status "ok" only for a recognised command (track,
\* stop_track) that was handled successfully; an unrecognised command and a
\* command whose handling failed are answered with status "error".
C26_ErrorsSurfacedInReply ==
    \A i \in 1..Len(lst_replies) :
        lst_replies[i].status = "ok" <=>
            (Recognised(lst_replies[i].request) /\ ~CallbackRaises(lst_replies[i].request))

(***************************************************************************)
(* Claims about the threads of the orchestrator, under Spec.               *)
(***************************************************************************)
\* The state tracker.update and tracker.reset read and write.
TrackerState ==
    <<smoother_yaw, smoother_pitch, scheduler_yaw, scheduler_pitch, pid_yaw, pid_pitch>>

\* A step of the control thread that finishes a tick.
ControlThreadStep == ctl_pc = "decide" /\ ctl_pc' = "check"

\* C27: the tracker's state is accessed by the control thread only, so no
\* tracker.reset() interleaves with the update of a tick in progress: while
\* a tick stands between consuming the mailbox and tracker.update, every
\* step that changes the tracker's state is the control thread's own.
C27_TrackerOnlyInControlThread ==
    [][(ctl_pc = "decide" /\ TrackerState' # TrackerState) => ControlThreadStep]_vars

\* C30: when several frames are queued as the receiver polls, the callback is
\* invoked only for the newest of them: the frame handed over is no older
\* than any frame that was queued, none of the queued frames is left to be
\* delivered later, and no frame is handed over after a newer one.
C30_LastValueWins ==
    [][vis_delivered' # vis_delivered =>
          /\ \A i \in 1..Len(socket_queue) : socket_queue[i].seq <= vis_delivered'
          /\ \A i \in 1..Len(socket_queue') : socket_queue'[i].seq > vis_delivered'
          /\ vis_delivered' > vis_delivered]_vars

\* A poll that found several frames queued has handed over the newest, after
\* an earlier frame had been handed over.
C30_Witness ==
    /\ vis_dropped >= 1
    /\ vis_delivered = 3
    /\ vis_pc = "detect"
    /\ vis_frame.seq = 3
    /\ last_written = 1
    /\ socket_queue = <<>>

(***************************************************************************)
(* Claims about the Frame Receiver's payload dispatch, under SpecReceiver. *)
(***************************************************************************)
\* C31: a well-formed message whose payload has one of the four lengths
\* 76800, 153600, 230400 and 921600 is decoded and handed to the callback;
\* a payload of any other length is discarded and the callback not invoked.
C31_PayloadDispatch ==
    (rcv_call.op = "receiver" /\ ReceiverAcceptsParts(rcv_call.parts)) =>
        (rcv_call.delivered <=>
            rcv_call.length \in {GreyLen, YuyvLen, RgbLen, VgaRgbLen})

(***************************************************************************)
(* Claims about yield_control, stop and failing RPCs, under SpecActuator.  *)
(***************************************************************************)
\* C32: after yield_control() has returned, no position command is forwarded
\* to the robot until set_target(label) is called, whatever the control
\* thread's tick in progress and the actuator thread do in between.
C32_NoPositionAfterYield ==
    act_sent.op = "set_angles" => ~act_sent.yielded

\* C36: the actuator stops only after draining: a command that was unsent in
\* the mailbox when stop was requested is not left there when the actuator
\* thread exits.
C36_StopsAfterDraining ==
    act_sent.op = "exit" =>
        \A i \in DOMAIN act_at_stop, j \in DOMAIN act_sent.mailbox :
            act_at_stop[i] # act_sent.mailbox[j]

\* C37: a failing set_angles costs only the command being forwarded: the
\* actuator thread keeps running and exits only after stop is requested, and
\* the mailbox is as it was for the next command.
C37_RpcFailureIsSkipped ==
    [][/\ (act_pc' = "exited" /\ act_pc # "exited") => act_stop
       /\ act_errors' # act_errors =>
              /\ act_pc' = "check"
              /\ command_queue' = command_queue
              /\ wr_pc' = wr_pc]_vars

\* A command forwarded after an earlier set_angles has failed, with no stop
\* requested.
C37_Witness ==
    /\ act_errors >= 1
    /\ act_sent.op = "set_angles"
    /\ ~act_stop
    /\ act_pc # "exited"

(***************************************************************************)
(* Claims about target loss in the control loop, under SpecLoop and, for   *)
(* what the thread eventually does, SpecLoopFair.                          *)
(***************************************************************************)
\* Perception is down: the control thread runs with a target, nothing is in
\* the mailbox, and no Detection has been measured for longer than
\* target_lost_timeout (last_measurement_time is 0 when none ever was).
PerceptionDown ==
    /\ loop_running
    /\ loop_pc \notin {"dead", "exited"}
    /\ loop_label
    /\ loop_box = None
    /\ loop_now - loop_lmt > loop_lost_timeout

\* The control thread has recentred and idles: the target is flagged lost
\* and the ticks issue no command.
RecentredAndIdle ==
    /\ loop_lost_active
    /\ loop_call.branch = "lost"
    /\ loop_call.command = NoCommand

\* C33: when perception stays down, also when no Detection has arrived since
\* start or since the target was set, the control thread eventually issues
\* the recenter command and from then on issues no commands.
C33_LostEventuallyRecentres ==
    <>[]PerceptionDown => <>[]RecentredAndIdle

\* C39: set_target(label) starts a fresh grace period: a tick within
\* target_lost_timeout of the call that finds no Detection does not take the
\* target-lost branch, which recentres or skips the tracker update, whatever
\* the age of the last Detection consumed and the lost flag.
C39_FreshGracePeriod ==
    (loop_call.op = "tick" /\ loop_call.branch = "lost" /\ ~loop_call.detection) =>
        loop_call.since_target > loop_lost_timeout

\* C40: a recenter command is issued only on a transition from tracking to
\* lost: between two recenter commands the tracker has been updated with a
\* Detection.
C40_RecenterOncePerLoss ==
    (loop_call.op = "tick" /\ loop_call.branch = "lost"
        /\ loop_call.command = Position(0, 0)) =>
        loop_call.before # "starved"

(***************************************************************************)
(* Claims about ghost pursuit, under SpecNative.                           *)
(***************************************************************************)
\* The advance of a smoothed target by ghost pursuit: the scheduler's
\* velocity, decayed by vel_decay, times the capped propagation dt.
GhostAdvance(sch, dt) ==
    TruncDiv(sch.curr_v * VelDecayNum * Min(dt, InnerMaxDt), VelDecayDen)

\* The latest update was a ghost tick of a controller that had its smoothed
\* targets.
GhostTick ==
    /\ nat_call.op = "update" /\ ~nat_call.measured
    /\ nat_call.before.smoother_yaw # None
    /\ nat_call.before.smoother_pitch # None

\* C34: on an update without a measurement, the yaw and the pitch smoothed
\* targets are each advanced by their own scheduler's velocity times
\* vel_decay times the capped propagation dt.
C34_GhostPursuitPerAxis ==
    GhostTick =>
        /\ nat_ctrl.smoother_yaw =
               Some(nat_call.before.smoother_yaw[1]
                    + GhostAdvance(nat_call.before.scheduler_yaw, nat_call.dt))
        /\ nat_ctrl.smoother_pitch =
               Some(nat_call.before.smoother_pitch[1]
                    + GhostAdvance(nat_call.before.scheduler_pitch, nat_call.dt))

\* The yaw half of C34, which the update does perform.
C34_YawAdvanced ==
    GhostTick =>
        nat_ctrl.smoother_yaw =
            Some(nat_call.before.smoother_yaw[1]
                 + GhostAdvance(nat_call.before.scheduler_yaw, nat_call.dt))

(***************************************************************************)
(* Claims about a dt outside the safety bounds, under SpecTracker.         *)
(***************************************************************************)
\* The latest update saw a raw dt outside [min_dt, max_dt].
DtOutOfBounds ==
    Updated /\ (trk_call.raw_dt > SafetyMaxDt \/ trk_call.raw_dt < SafetyMinDt)

\* The controller in use is as reset() leaves it.
ControllerIsReset ==
    IF control_mode = "native"
    THEN /\ smoother_yaw = None /\ smoother_pitch = None
         /\ scheduler_yaw = SchedulerReset /\ scheduler_pitch = SchedulerReset
    ELSE pid_yaw = PidReset /\ pid_pitch = PidReset

\* C35: a tick whose dt is outside the safety bounds leaves the tracker
\* reset and the recenter command Position(0, 0) as the command issued.
C35_OutOfBoundsResets ==
    DtOutOfBounds => (ControllerIsReset /\ issued = Position(0, 0))

(***************************************************************************)
(* Claims about a change of target, under SpecTarget.                      *)
(***************************************************************************)
\* The latest call on the tracker was an update with a Detection.
UpdatedWithDetection == tgt_call.op = "update" /\ tgt_call.detection # None

\* C38: a Detection handed to tracker.update was requested from perception
\* for the target the tick found set: none is one that was left in the
\* mailbox from a previous target, and none was written by a callback whose
\* perception request was made before the target changed.
C38_NoDetectionOfPreviousTarget ==
    UpdatedWithDetection => tgt_call.detection[1].requested = tgt_call.label

\* The part of C38 about the mailbox alone: a Detection handed to
\* tracker.update carries the label of the target the tick found set.
C38_MailboxOfPreviousTarget ==
    UpdatedWithDetection => Some(tgt_call.detection[1].label) = tgt_call.label

====
